---- MODULE Spec2Model ----
(***************************************************************************)
(* Ingestion and dual-backend storage of the RAG pipeline.                 *)
(*                                                                         *)
(* IngestionService.ingest_document is modelled step by step (one action   *)
(* per block of the handler, separated at its network and file-system      *)
(* calls), QdrantStorage by the three collections it reads and writes:     *)
(* the cloud collection, the cloud replica of the docker collection and    *)
(* the docker collection on localhost.  Every external call (file read,    *)
(* scroll, upsert, search, embedding request, file move) may fail; the     *)
(* failure is an input of the action that makes the call.                  *)
(***************************************************************************)
EXTENDS Integers, Sequences, FiniteSets, TLC

\* ---------------------------------------------------------------- bounds
\* Number of ingest_document calls in a behaviour.
MaxIngests == 2
\* The largest document uploaded has MaxBlocks blocks of BlockSize bytes.
MaxBlocks == 3
\* The long document has LongBlocks blocks: more chunks than one sub-batch.
LongBlocks == 50
\* A website loads into at most MaxChunks chunks.
MaxChunks == 2

\* ------------------------------------------------------ program constants
\* cloud_error[:100], docker_error[:100]
ErrMsgLimit == 100
\* search_docker(query_vector, limit=4)
SearchLimit == 4
\* BATCH_SIZE = 49
BATCH_SIZE == 49
\* calculate_md5: f.read(4096)
BlockSize == 4096
\* The buffer of the file object that aiofiles.open(file_path, 'wb') returns:
\* open() sizes it by the block size of the file system (st_blksize).
BufferSize == 4096

\* ------------------------------------------------------------- settings
generate_embeddings_folder == "generate_embeddings"
stored_folder == "generate_embeddings/stored"
stored_docker_only_folder == "generate_embeddings/stored_in_q_docker_only"
stored_cloud_only_folder == "generate_embeddings/stored_in_q_cloud_only"

Folders == {generate_embeddings_folder, stored_folder,
            stored_docker_only_folder, stored_cloud_only_folder}

\* The documents (distinct byte contents) that are uploaded, each named by
\* the number of its blocks: an empty one, one of a single block and one of
\* MaxBlocks blocks; the file names they are uploaded under; and the
\* ingestion runs.
Docs == {0, 1, MaxBlocks}
Names == {"a", "b"}
Runs == {"r1", "r2"}

\* Python's None, for a folder name, a path, a fingerprint and an error text.
None == "None"
NoPath == [folder |-> None, name |-> None, doc |-> <<>>, sfx |-> <<>>, ext |-> None]
NoMd5 == <<None, <<>>>>
NoErr == [id |-> None, len |-> 0, kw |-> {}]
NoCounts == [cloud |-> 0, replica |-> 0, docker |-> 0]
NoSearch == [status |-> None, source |-> None, hits |-> {}, tried |-> <<>>,
             dockerFailed |-> FALSE, replicaFailed |-> FALSE,
             model_type |-> None, vector |-> None]
NoStore == [skipped |-> FALSE, dockerTried |-> FALSE, docker_success |-> FALSE,
            replicaTried |-> FALSE, cloud_success |-> FALSE, ret |-> FALSE,
            called |-> FALSE]

VARIABLES
    fs,                \* the files on disk: records [folder, name, doc, sfx, ext]
    cloudColl,         \* points of bootcamp_rag_cloud on the cloud client
    replicaColl,       \* points of bootcamp_rag_docker on the cloud client
    dockerColl,        \* points of bootcamp_rag_docker on the docker client
    docker_available,  \* QdrantStorage.docker_available of each service's object
    storage,           \* how the construction of each QdrantStorage ended
    runs,              \* the ingest_document activations
    last,              \* what the most recently returned activation did, and
                       \* the number of chunks each call loaded
    started,           \* number of ingest_document calls so far
    search,            \* the search_cloud or search_docker call under way
    query,             \* the activation of RAGService.query
    gemini,            \* GeminiEmbedding and its embed_documents activation
    window,            \* requests the Gemini API received in the last minute
    local,             \* the LocalEmbedding of each service
    uploads,           \* the activations of the upload handler before its ingest
    bulk,              \* the activation of ingest_all_documents
    web,               \* the activation of ingest_website
    chat,              \* ChatStorageService: MongoDB collection and JSON files
    turn,              \* the activation of RAGService.query, as the history sees it
    stream,            \* the generators of RAGService.query_stream
    chunker,           \* the activation of DocumentProcessor._chunk_text
    embedq,            \* GeminiEmbedding.embed_query: the counter and its callers
    cleaner,           \* the activation of DocumentProcessor.preprocess_text
    server             \* the event loop of the API server and its requests

\* The state of the query side and of the embedding providers.
embedVars == <<gemini, window, local>>
ragVars == <<query, embedVars>>

\* The state of the other entry points: the upload handlers, bulk and website
\* ingestion, the chat history with the streamed query, and the chunker.
entryVars == <<uploads, bulk, web>>
chatVars == <<chat, turn, stream>>
unitVars == <<embedq, cleaner, server>>
frontVars == <<entryVars, chatVars, chunker, unitVars>>

\* The state of the ingestion side and of the store.
storeVars == <<fs, cloudColl, replicaColl, dockerColl, docker_available,
               storage, runs, last, started, search>>

\* model_type of a request: QueryRequest of models/schemas.py.
ModelTypes == {"gemini", "qwen3"}

\* thinking = None
NoThinking == <<"None">>

\* No query is being answered.
IdleQuery == [pc |-> "idle", model_type |-> "None", search_results |-> <<>>,
              context |-> <<>>, result |-> <<>>, response |-> <<>>,
              thinking |-> NoThinking, used_sources |-> <<>>,
              sources |-> <<>>]

\* The services of main.py; each constructs its own LocalEmbedding.
Services == {"rag", "ingestion"}

\* GeminiEmbedding after __init__, with no call in progress.
IdleGemini(has_second_key) ==
    [has_second_key |-> has_second_key, pc |-> "idle", texts |-> <<>>,
     i |-> 0, batches |-> <<>>, all_embeddings |-> <<>>, waited |-> 0,
     calls |-> 0]

\* LocalEmbedding after __init__, with no call in progress.
IdleLocal(use_fallback) ==
    [use_fallback |-> use_fallback, pc |-> "idle", method |-> None,
     texts |-> <<>>, embeddings |-> <<>>, log |-> <<>>, calls |-> 0]

\* The providers as constructed when nothing of them is exercised.
EmbeddingsIdle ==
    /\ gemini = IdleGemini(FALSE)
    /\ window = <<>>
    /\ local = [s \in Services |-> IdleLocal(FALSE)]

RagIdle == query = IdleQuery /\ EmbeddingsIdle

vars == <<fs, cloudColl, replicaColl, dockerColl, docker_available, storage,
          runs, last, started, search, ragVars, frontVars>>

\* ------------------------------------------------------------- helpers
Min(a, b) == IF a < b THEN a ELSE b

\* The bytes of document d: d blocks of BlockSize bytes, block i of document
\* d differing from every block of another document and from its other blocks.
Bytes(d) == [i \in 1..d |-> <<d, i>>]

\* DocumentProcessor.calculate_md5: the upper-case hex digest of the blocks
\* that were read.  Distinct byte contents have distinct digests.
calculate_md5(blocks) == <<"MD5", blocks>>

\* The chunks load_document returns for the bytes of a file.  Every block of
\* a document is a paragraph that fills one chunk (more than half of
\* chunk_size), ended by a blank line and padded with spaces to BlockSize
\* bytes: preprocess_text reduces the padding to one space and the splitter
\* makes one chunk of each paragraph.
NChunks(bytes) == Len(bytes)

\* Number of points of a collection / points of one fingerprint.
PointsOf(coll, md5) == {p \in coll : p.md5 = md5}
Counts == [cloud   |-> Cardinality(cloudColl),
           replica |-> Cardinality(replicaColl),
           docker  |-> Cardinality(dockerColl)]

\* A path: folder, the stem of the file name, the "_<counter>" suffixes
\* _move_file has appended to the stem, and the file suffix (".txt" unless
\* said otherwise).  The record of a file on disk holds the file's bytes in
\* `doc`; in a path that field is empty and plays no part.
Path(folder, name, sfx) ==
    [folder |-> folder, name |-> name, doc |-> <<>>, sfx |-> sfx, ext |-> ".txt"]

\* The file at a path that holds the bytes of document d.
File(folder, name, sfx, d) == [Path(folder, name, sfx) EXCEPT !.doc = Bytes(d)]

\* Error texts: an identity, a length, and the keywords the text contains.
GeminiErrs ==
    { [id |-> "gemini_trace",   len |-> 140, kw |-> {}],
      [id |-> "gemini_empty",   len |-> 60,  kw |-> {"INVALID_ARGUMENT", "empty"}] }
LocalErrs ==
    { [id |-> "local_refused",  len |-> 40,  kw |-> {}],
      [id |-> "local_quota",    len |-> 140, kw |-> {"402"}] }

\* The text of the exception a failed upsert raises inside the store.
UpsertErr(collection) == [id |-> "upsert_" \o collection, len |-> 40, kw |-> {}]

\* str(e)[:100]
Truncate(e) == [e EXCEPT !.len = Min(e.len, ErrMsgLimit)]

\* ---------------------------------------------------------- _move_file
\* A file has the name of a path when folder, stem and suffix agree; the
\* bytes play no part.
SameName(f, p) ==
    /\ f.folder = p.folder
    /\ f.name = p.name
    /\ f.sfx = p.sfx
    /\ f.ext = p.ext

\* The file found at a path (Path.exists(), open()): none or one.
OnDisk(files, p) == {f \in files : SameName(f, p)}

\* The bytes of the file at a path.
BytesAt(files, p) == (CHOOSE f \in OnDisk(files, p) : TRUE).doc

\* The destination _move_file picks: the source's name in the folder, or,
\* while that exists, "<stem>_<counter>" for counter = 1, 2, ...
DestPath(files, source, folder) ==
    LET plain == [source EXCEPT !.folder = folder]
        numbered(k) == [source EXCEPT !.folder = folder,
                                      !.sfx = Append(source.sfx, k)]
        taken(k) == OnDisk(files, numbered(k)) # {}
    IN  IF OnDisk(files, plain) = {}
        THEN plain
        ELSE numbered(CHOOSE k \in 1..(Cardinality(files) + 1) :
                         /\ ~taken(k)
                         /\ \A j \in 1..(k - 1) : taken(j))

\* The files after _move_file(source, folder).  shutil.move raising (ok is
\* FALSE, or the source is gone) is logged and leaves the files as they are.
MoveFile(files, source, folder, ok) ==
    IF ok /\ OnDisk(files, source) # {}
    THEN (files \ OnDisk(files, source))
            \cup {[DestPath(files, source, folder) EXCEPT
                      !.doc = BytesAt(files, source)]}
    ELSE files

\* Mutant: the two partial-commit folders exchanged.
determine_destination_swapped(cloud_success, docker_success) ==
    IF cloud_success /\ docker_success THEN stored_folder
    ELSE IF cloud_success THEN stored_docker_only_folder
    ELSE IF docker_success THEN stored_cloud_only_folder
    ELSE generate_embeddings_folder

\* ------------------------------------------------ _determine_destination
_determine_destination(cloud_success, docker_success) ==
    IF cloud_success /\ docker_success THEN stored_folder
    ELSE IF cloud_success THEN stored_cloud_only_folder
    ELSE IF docker_success THEN stored_docker_only_folder
    ELSE generate_embeddings_folder

\* ------------------------------------------------- check_document_exists
\* A scroll on the cloud client for one point with this md5; an exception
\* of the scroll is logged and reported as "does not exist".
check_document_exists(md5, coll, scrollFails) ==
    IF scrollFails THEN FALSE ELSE PointsOf(coll, md5) # {}

\* Mutant: the write replaces the points that carry the fingerprint.
Upsert_byFingerprint(coll, points) ==
    {p \in coll : \A q \in points : q.md5 # p.md5} \cup points

\* Mutant: the ids restart with every ingest_document call.
Uuid7_perCall(call, space, i) == <<0, IF space = "gemini" THEN 1 ELSE 2, i>>

\* str(uuid7()): time ordered and never repeated.  The ids made by the
\* call-th ingest_document call, for the cloud attempt (gemini) and for the
\* docker attempt (local), in chunk order.
Uuid7(call, space, i) == <<call, IF space = "gemini" THEN 1 ELSE 2, i>>

\* client.upsert(collection_name, points): a point whose id the collection
\* already holds is replaced, every other point is added.
Upsert(coll, points) ==
    {p \in coll : \A q \in points : q.id # p.id} \cup points

\* Mutant: the write goes out before the last chunk is embedded.
NewPoints_lastMissing(call, md5, n, space) ==
    { [id |-> Uuid7(call, space, i), md5 |-> md5, chunkno |-> i, space |-> space] :
        i \in 1..(n - 1) }

\* The points built for the n chunks of a document: fresh uuid7 ids, the
\* fingerprint, and the chunk number of the chunk's metadata (1-based).
NewPoints(call, md5, n, space) ==
    { [id |-> Uuid7(call, space, i), md5 |-> md5, chunkno |-> i, space |-> space] :
        i \in 1..n }

\* Mutant: the replica is written only when the docker write did not succeed.
ReplicaWriteTried_fallbackOnly(skipped, docker_success) ==
    ~skipped /\ ~docker_success

\* ----------------------------------------------- store_embeddings_docker
\* The local write is tried only when the docker client of the ingestion
\* service's QdrantStorage came up at start; the replica write follows
\* whatever the local write did.
DockerWriteTried(skipped) == ~skipped /\ docker_available["ingestion"]
ReplicaWriteTried(skipped, docker_success) == ~skipped

\* ------------------------------------------------------- result messages
Msg(success, kind, parts) == [success |-> success, kind |-> kind, parts |-> parts]

\* The entry of the "failed: ..." list for the cloud attempt.
CloudErrorPart(cloud_error) ==
    IF cloud_error = NoErr THEN <<>>
    ELSE IF "INVALID_ARGUMENT" \in cloud_error.kw /\ "empty" \in cloud_error.kw
    THEN <<[label |-> "cloud embedding error: batch request was empty", text |-> NoErr]>>
    ELSE IF "INVALID_ARGUMENT" \in cloud_error.kw /\ "100" \in cloud_error.kw
    THEN <<[label |-> "cloud embedding error: exceeded batch size limit", text |-> NoErr]>>
    ELSE <<[label |-> "cloud error", text |-> Truncate(cloud_error)]>>

\* The entry of the "failed: ..." list for the docker attempt.
DockerErrorPart(docker_error) ==
    IF docker_error = NoErr THEN <<>>
    ELSE IF "402" \in docker_error.kw \/ "Payment Required" \in docker_error.kw
    THEN <<[label |-> "docker error: HuggingFace quota exceeded", text |-> NoErr]>>
    ELSE <<[label |-> "docker error", text |-> Truncate(docker_error)]>>

\* The (success, message) pair built from the two attempts.
ResultMessage(cloud_success, docker_success, cloud_error, docker_error) ==
    IF cloud_success /\ docker_success THEN Msg(TRUE, "both", <<>>)
    ELSE IF cloud_success THEN Msg(TRUE, "cloud_only", <<>>)
    ELSE IF docker_success
    THEN Msg(TRUE, "docker_only",
             IF cloud_error = NoErr THEN <<>>
             ELSE <<[label |-> "cloud failed", text |-> Truncate(cloud_error)]>>)
    ELSE Msg(FALSE, "failed",
             CloudErrorPart(cloud_error) \o DockerErrorPart(docker_error))

\* ------------------------------------------------------ ingest_document
\* One step of a call is one blocking request: a read of the file, a scroll,
\* an embedding call, an upsert, a move.
IdleRun ==
    [pc |-> "idle", call |-> 0, file |-> NoPath, fd |-> NoPath, blocks |-> <<>>,
     md5 |-> NoMd5, fresh |-> FALSE,
     cloud_exists |-> FALSE, docker_exists |-> FALSE, loaded |-> None, n |-> 0,
     cloud_embedded |-> 0, docker_embedded |-> 0,
     cloud_success |-> FALSE, docker_success |-> FALSE,
     cloud_error |-> NoErr, docker_error |-> NoErr,
     cloud_logged |-> NoErr, docker_logged |-> NoErr,
     sd |-> NoStore, dest |-> None, moved |-> FALSE,
     result |-> [success |-> FALSE, kind |-> None, parts |-> <<>>],
     log |-> <<>>, start |-> NoCounts]

NoLast == [md5 |-> NoMd5, kind |-> None, fresh |-> FALSE,
           chunks |-> [c \in 1..MaxIngests |-> 0]]

\* The event loop of the server runs no call of ingest_document, no
\* ingest_all_documents and no search_docker (which RAGService.query alone
\* calls): the handlers are coroutines that make these calls without awaiting
\* them, so no other handler runs until they return.
LoopFree ==
    /\ \A q \in Runs : runs[q].pc = "idle"
    /\ bulk.pc \notin {"loop", "call"}
    /\ search.model_type # "qwen3"

\* Mutant: the document is loaded without the existence checks.
PcAfterMd5_NoCheck == "load"

\* The block of the handler a run enters after the fingerprint is known.
PcAfterMd5 == "check"

\* The activation record of a call that begins on a path.
NewRun(path) ==
    [IdleRun EXCEPT !.pc = "md5", !.call = started + 1, !.file = path,
                    !.start = Counts]

\* A call of ingest_document(file_path) begins on the event loop: the upload
\* endpoint and ingest_all call it synchronously, one call at a time.
Begin(r, path) ==
    /\ started < MaxIngests
    /\ \A q \in Runs : runs[q].pc = "idle"
    /\ search.model_type # "qwen3"
    /\ r = CHOOSE q \in Runs : TRUE
    /\ started' = started + 1
    /\ runs' = [runs EXCEPT ![r] = NewRun(path)]

\* ------------------------------------------------------- upload_document
\* The upload handlers that may be in flight at once.
Handlers == {"u1", "u2"}

\* A handler: its position, the file name and the bytes it was sent, the file
\* its open descriptor refers to (by the name the file has now), and whether
\* f.write passed the bytes on to the file.  A handler serves one request.
NoUpload == [pc |-> "none", name |-> None, doc |-> <<>>, fd |-> NoPath,
             flushed |-> FALSE]
ReturnedUpload == [NoUpload EXCEPT !.pc = "returned"]

\* generate_embeddings_folder / file.filename
UploadPath(name) == Path(generate_embeddings_folder, name, <<>>)

\* The handlers between their beginning and their call of ingest_document.
Saving ==
    {u \in Handlers :
        uploads[u].pc \in {"begun", "opened", "writing", "written", "closing", "saved"}}

\* The bytes of a file after a write of `bytes` at the start of the file:
\* the descriptor was opened at position 0 and is written once, and what the
\* file holds beyond the written bytes stays.
Overwrite(old, bytes) == bytes \o SubSeq(old, Len(bytes) + 1, Len(old))

\* The files after bytes went through a descriptor: they are in the file
\* the descriptor was opened on, wherever it was moved to.
WriteThrough(files, fd, bytes) ==
    {IF SameName(f, fd) THEN [f EXCEPT !.doc = Overwrite(@, bytes)] ELSE f :
        f \in files}

\* The path a descriptor refers to after shutil.move renamed source to dest
\* (or did not): a descriptor open on the file stays open on it under its
\* new name.
Renamed(fd, source, dest, moved) ==
    IF moved /\ fd # NoPath /\ SameName(fd, source)
    THEN [dest EXCEPT !.doc = <<>>]
    ELSE fd

\* The descriptors of the handlers, and of the calls that are reading a
\* file, after the move.
Follow(ups, source, dest, moved) ==
    [u \in Handlers |-> [ups[u] EXCEPT !.fd = Renamed(@, source, dest, moved)]]
FollowRuns(rs, source, dest, moved) ==
    [q \in Runs |-> [rs[q] EXCEPT !.fd = Renamed(@, source, dest, moved)]]

\* POST /upload of document d under a file name: the handler begins on the
\* loop and awaits aiofiles.open(file_path, 'wb'), which hands the open to a
\* worker thread.  The names are interchangeable, so the first is "a".
UploadBegin(u, name, d) ==
    /\ LoopFree
    /\ uploads[u].pc = "none"
    /\ u = CHOOSE v \in Handlers : uploads[v].pc = "none"
    /\ name # "a" => \E v \in Handlers : uploads[v].name = "a"
    /\ started + Cardinality(Saving) < MaxIngests
    /\ uploads' = [uploads EXCEPT ![u] = [NoUpload EXCEPT !.pc = "begun",
                                                          !.name = name,
                                                          !.doc = Bytes(d)]]
    /\ UNCHANGED <<storeVars, ragVars, bulk, web, chatVars, chunker, unitVars>>

\* The worker thread opens the file: open(file_path, 'wb') creates it, or
\* truncates the one that is there.  The thread does not wait for the loop.
UploadOpen(u) ==
    /\ uploads[u].pc = "begun"
    /\ uploads' = [uploads EXCEPT ![u].pc = "opened",
                                  ![u].fd = UploadPath(uploads[u].name)]
    /\ fs' = (fs \ OnDisk(fs, UploadPath(uploads[u].name)))
                \cup {UploadPath(uploads[u].name)}
    /\ UNCHANGED <<cloudColl, replicaColl, dockerColl, docker_available, storage,
                   runs, last, started, search, ragVars, bulk, web, chatVars,
                   chunker, unitVars>>

\* The handler resumes on the loop: "content = await file.read()", and
\* "await f.write(content)" hands the write to a worker thread.
UploadResume(u) ==
    /\ LoopFree
    /\ uploads[u].pc = "opened"
    /\ uploads' = [uploads EXCEPT ![u].pc = "writing"]
    /\ UNCHANGED <<storeVars, ragVars, bulk, web, chatVars, chunker, unitVars>>

\* Whether f.write passes the bytes on to the file at once: the file object
\* keeps a write that fits its buffer until the close, and hands a larger one
\* to the file in one write.
PassesBuffer(bytes) == Len(bytes) * BlockSize > BufferSize

\* The worker thread runs f.write(content): the bytes stay in the buffer of
\* the file object, or go to the file.  The file is the one the descriptor
\* was opened on: a file that ingest_document has moved meanwhile is written
\* where it was moved to.
UploadWrite(u) ==
    /\ uploads[u].pc = "writing"
    /\ uploads' = [uploads EXCEPT ![u].pc = "written",
                                  ![u].flushed = PassesBuffer(uploads[u].doc)]
    /\ fs' = IF PassesBuffer(uploads[u].doc)
             THEN WriteThrough(fs, uploads[u].fd, uploads[u].doc)
             ELSE fs
    /\ UNCHANGED <<cloudColl, replicaColl, dockerColl, docker_available, storage,
                   runs, last, started, search, ragVars, bulk, web, chatVars,
                   chunker, unitVars>>

\* The handler resumes on the loop and leaves "async with": __aexit__ hands
\* the close to a worker thread.
UploadExit(u) ==
    /\ LoopFree
    /\ uploads[u].pc = "written"
    /\ uploads' = [uploads EXCEPT ![u].pc = "closing"]
    /\ UNCHANGED <<storeVars, ragVars, bulk, web, chatVars, chunker, unitVars>>

\* The worker thread closes the file: bytes still in the buffer go to the
\* file the descriptor is open on.
UploadClose(u) ==
    /\ uploads[u].pc = "closing"
    /\ uploads' = [uploads EXCEPT ![u].pc = "saved", ![u].fd = NoPath]
    /\ fs' = IF uploads[u].flushed THEN fs
             ELSE WriteThrough(fs, uploads[u].fd, uploads[u].doc)
    /\ UNCHANGED <<cloudColl, replicaColl, dockerColl, docker_available, storage,
                   runs, last, started, search, ragVars, bulk, web, chatVars,
                   chunker, unitVars>>

\* "success, message = ingestion_service.ingest_document(str(file_path))":
\* the call begins on whatever is at the path by now.
UploadIngest(u, r) ==
    /\ LoopFree
    /\ uploads[u].pc = "saved"
    /\ Begin(r, UploadPath(uploads[u].name))
    /\ uploads' = [uploads EXCEPT ![u].pc = "ingest"]
    /\ UNCHANGED <<fs, cloudColl, replicaColl, dockerColl, docker_available,
                   storage, last, search, ragVars, bulk, web, chatVars,
                   chunker, unitVars>>

\* ingest_all_documents: ingest_document is called on a file found in the
\* generate_embeddings folder.
IngestFromFolder(r, path) ==
    /\ LoopFree
    /\ path \in fs
    /\ path.folder = generate_embeddings_folder
    /\ Begin(r, [path EXCEPT !.doc = <<>>])
    /\ UNCHANGED <<fs, cloudColl, replicaColl, dockerColl,
                   docker_available, storage, ragVars, frontVars, last, search>>

\* A call of ingest_document begins while another call, made by a second
\* thread or process on the same collections, has not returned:
\* ingest_document and QdrantStorage take no lock.
BeginOverlapping(r, path) ==
    /\ started < MaxIngests
    /\ path \in fs
    /\ path.folder = generate_embeddings_folder
    /\ runs[r].pc = "idle"
    /\ r = CHOOSE q \in Runs : runs[q].pc = "idle"
    /\ \E q \in Runs : runs[q].pc # "idle"
    /\ started' = started + 1
    /\ runs' = [runs EXCEPT ![r] = NewRun([path EXCEPT !.doc = <<>>])]
    /\ UNCHANGED <<fs, cloudColl, replicaColl, dockerColl,
                   docker_available, storage, ragVars, frontVars, last, search>>

\* Mutant: the outer handler logs the exception and raises it again.
OuterHandler_reraising ==
    [pc |-> "raised", result |-> [success |-> FALSE, kind |-> None, parts |-> <<>>]]

\* "except Exception as e" around the whole of ingest_document: the
\* exception is logged and (False, "Error: ...") is returned.
OuterHandler == [pc |-> "done", result |-> Msg(FALSE, "error", <<>>)]

\* calculate_md5(file_path) begins: open(file_path, "rb").  An exception of
\* the open (the file is gone, or cannot be opened) reaches the outer handler.
Md5Open(r) ==
    /\ runs[r].pc = "md5"
    /\ \E openOK \in BOOLEAN :
         runs' = [runs EXCEPT ![r] =
                    IF openOK /\ OnDisk(fs, runs[r].file) # {}
                    THEN [@ EXCEPT !.pc = "md5_read",
                                   !.fd = runs[r].file]
                    ELSE [@ EXCEPT !.pc = OuterHandler.pc,
                                   !.log = Append(@, "md5"),
                                   !.result = OuterHandler.result]]
    /\ UNCHANGED <<fs, cloudColl, replicaColl, dockerColl,
                   docker_available, storage, ragVars, frontVars, last, started, search>>

\* The fingerprint is absent from every collection.
Absent(md5) ==
    /\ PointsOf(cloudColl, md5) = {}
    /\ PointsOf(replicaColl, md5) = {}
    /\ PointsOf(dockerColl, md5) = {}

\* "for chunk in iter(lambda: f.read(4096), b"")": one read of the next block
\* of what the file holds now.  A read at or beyond the end of the file ends
\* the loop, and the digest is that of the blocks read; an exception of a
\* read reaches the outer handler.
Md5Read(r) ==
    /\ runs[r].pc = "md5_read"
    /\ \E readOK \in BOOLEAN :
         LET bytes == IF OnDisk(fs, runs[r].fd) = {} THEN <<>>
                      ELSE BytesAt(fs, runs[r].fd)
             k == Len(runs[r].blocks)
             md5 == calculate_md5(runs[r].blocks)
         IN  runs' = [runs EXCEPT ![r] =
                IF ~readOK
                THEN [@ EXCEPT !.pc = OuterHandler.pc,
                               !.fd = NoPath,
                               !.blocks = <<>>,
                               !.log = Append(@, "md5"),
                               !.result = OuterHandler.result]
                ELSE IF k < Len(bytes)
                THEN [@ EXCEPT !.blocks = Append(@, bytes[k + 1])]
                ELSE [@ EXCEPT !.pc = PcAfterMd5,
                               !.fd = NoPath,
                               !.blocks = <<>>,
                               !.md5 = md5,
                               !.fresh = Absent(md5),
                               !.log = Append(@, "md5")]]
    /\ UNCHANGED <<fs, cloudColl, replicaColl, dockerColl,
                   docker_available, storage, ragVars, frontVars, last, started, search>>

\* The first existence check: a scroll of the cloud collection.
CheckCloud(r) ==
    /\ runs[r].pc = "check"
    /\ \E scrollFails \in BOOLEAN :
         runs' = [runs EXCEPT ![r] =
                    [@ EXCEPT !.pc = "check_docker",
                              !.cloud_exists =
                                  check_document_exists(runs[r].md5, cloudColl, scrollFails),
                              !.log = Append(@, "exists_cloud")]]
    /\ UNCHANGED <<fs, cloudColl, replicaColl, dockerColl,
                   docker_available, storage, ragVars, frontVars, last, started, search>>

\* Mutant: a duplicate found in one collection goes to the other's folder.
DuplicateFolder_swapped(cloud_exists, docker_exists) ==
    IF cloud_exists /\ docker_exists THEN stored_folder
    ELSE IF cloud_exists THEN stored_docker_only_folder
    ELSE stored_cloud_only_folder

\* The folder a duplicate is routed to.
DuplicateFolder(cloud_exists, docker_exists) ==
    IF cloud_exists /\ docker_exists THEN stored_folder
    ELSE IF cloud_exists THEN stored_cloud_only_folder
    ELSE stored_docker_only_folder

DuplicateKind(cloud_exists, docker_exists) ==
    IF cloud_exists /\ docker_exists THEN "duplicate_both"
    ELSE IF cloud_exists THEN "duplicate_cloud"
    ELSE "duplicate_docker"

\* Whether the pre-check rejects the document.
IsDuplicate(cloud_exists, docker_exists) == cloud_exists \/ docker_exists

\* The second existence check: a scroll of the docker collection on the
\* cloud client (the replica), and the branch on the two answers.
CheckDocker(r) ==
    /\ runs[r].pc = "check_docker"
    /\ \E scrollFails \in BOOLEAN :
         LET de == check_document_exists(runs[r].md5, replicaColl, scrollFails)
         IN  runs' = [runs EXCEPT ![r] =
                        [@ EXCEPT !.pc = IF IsDuplicate(runs[r].cloud_exists, de)
                                         THEN "duplicate" ELSE "load",
                                  !.docker_exists = de,
                                  !.log = Append(@, "exists_docker")]]
    /\ UNCHANGED <<fs, cloudColl, replicaColl, dockerColl,
                   docker_available, storage, ragVars, frontVars, last, started, search>>

\* The duplicate is moved to its folder and the rejection returned.
MoveDuplicate(r) ==
    /\ runs[r].pc = "duplicate"
    /\ \E moveOK \in BOOLEAN :
         LET ce == runs[r].cloud_exists
             de == runs[r].docker_exists
         IN  /\ fs' = MoveFile(fs, runs[r].file, DuplicateFolder(ce, de), moveOK)
             /\ uploads' = Follow(uploads, runs[r].file,
                                  DestPath(fs, runs[r].file, DuplicateFolder(ce, de)),
                                  moveOK /\ OnDisk(fs, runs[r].file) # {})
             /\ runs' = [FollowRuns(runs, runs[r].file,
                                     DestPath(fs, runs[r].file, DuplicateFolder(ce, de)),
                                     moveOK /\ OnDisk(fs, runs[r].file) # {})
                         EXCEPT ![r] =
                   [@ EXCEPT !.pc = "done",
                             !.dest = DuplicateFolder(ce, de),
                             !.moved = moveOK /\ OnDisk(fs, runs[r].file) # {},
                             !.log = Append(@, "move"),
                             !.result = Msg(FALSE, DuplicateKind(ce, de), <<>>)]]
    /\ UNCHANGED <<cloudColl, replicaColl, dockerColl,
                   docker_available, storage, ragVars, bulk, web,
                   chatVars, chunker, unitVars, last, started, search>>

\* Mutant: the zero-chunk test is missing.
NoChunks_unchecked(n) == FALSE

\* "if not chunks or len(chunks) == 0"
NoChunks(n) == n = 0

\* load_document and the zero-chunk test; a file that is gone cannot be
\* loaded.  The chunks are those of the bytes the file holds now.
LoadDocument(r) ==
    /\ runs[r].pc = "load"
    /\ \E outcome \in {"ok", "ValueError", "Exception"} :
         /\ outcome = "ok" => OnDisk(fs, runs[r].file) # {}
         /\ LET loaded == [runs[r] EXCEPT !.log = Append(@, "load"),
                                          !.loaded = outcome]
                n == IF outcome = "ok" THEN NChunks(BytesAt(fs, runs[r].file))
                     ELSE 0
            IN  /\ runs' = [runs EXCEPT ![r] =
                      IF outcome = "ValueError"
                      THEN [loaded EXCEPT !.pc = "done",
                                          !.result = Msg(FALSE, "empty", <<>>)]
                      ELSE IF outcome = "Exception"
                      THEN [loaded EXCEPT !.pc = "done",
                                          !.result = Msg(FALSE, "loading_error", <<>>)]
                      ELSE IF NoChunks(n)
                      THEN [loaded EXCEPT !.pc = "done",
                                          !.result = Msg(FALSE, "empty", <<>>)]
                      ELSE [loaded EXCEPT !.pc = "cloud", !.n = n]]
                /\ last' = [last EXCEPT !.chunks[runs[r].call] = n]
    /\ UNCHANGED <<fs, cloudColl, replicaColl, dockerColl,
                   docker_available, storage, ragVars, frontVars, started, search>>

\* Mutant: an exception of the cloud attempt skips the docker attempt.
PcAfterCloudError_SkipDocker == "finish"

\* The block a run enters when the cloud attempt raised: the exception is
\* caught around the cloud attempt alone.
PcAfterCloudError == "docker"

\* "Try Gemini + Cloud": gemini_embedding.embed_documents(chunks), one
\* request for each sub-batch of BATCH_SIZE chunks.  An exception of a
\* request ends the call, the embeddings made so far are dropped with it,
\* and the exception becomes cloud_error; cloud_embedded then tells how many
\* chunks had been embedded.
GeminiEmbed(r) ==
    /\ runs[r].pc = "cloud"
    /\ \E embed \in {NoErr} \cup GeminiErrs :
         LET done == Min(runs[r].cloud_embedded + BATCH_SIZE, runs[r].n)
         IN  runs' = [runs EXCEPT ![r] =
                IF embed # NoErr
                THEN [@ EXCEPT !.pc = PcAfterCloudError,
                               !.cloud_error = embed,
                               !.log = Append(@, "embed_gemini")]
                ELSE IF done < runs[r].n
                THEN [@ EXCEPT !.cloud_embedded = done]
                ELSE [@ EXCEPT !.pc = "cloud_check",
                               !.cloud_embedded = done,
                               !.log = Append(@, "embed_gemini")]]
    /\ UNCHANGED <<fs, cloudColl, replicaColl, dockerColl, docker_available, storage,
                   ragVars, frontVars, last, started, search>>

\* store_embeddings_cloud begins: the collection is asked for the
\* fingerprint, and one that is found makes the store return False.
StoreCheckCloud(r) ==
    /\ runs[r].pc = "cloud_check"
    /\ \E scrollFails \in BOOLEAN :
         runs' = [runs EXCEPT ![r] =
            IF check_document_exists(runs[r].md5, cloudColl, scrollFails)
            THEN [@ EXCEPT !.pc = "docker",
                           !.log = Append(@, "store_exists_cloud")]
            ELSE [@ EXCEPT !.pc = "cloud_upsert",
                           !.log = Append(@, "store_exists_cloud")]]
    /\ UNCHANGED <<fs, cloudColl, replicaColl, dockerColl, docker_available, storage,
                   ragVars, frontVars, last, started, search>>

\* The rest of store_embeddings_cloud: the points are built and upserted in
\* one request; an exception of the upsert is logged and reported as False.
CloudUpsert(r) ==
    /\ runs[r].pc = "cloud_upsert"
    /\ \E upsertOK \in BOOLEAN :
         /\ cloudColl' = IF upsertOK
                         THEN Upsert(cloudColl,
                                     NewPoints(runs[r].call, runs[r].md5, runs[r].n, "gemini"))
                         ELSE cloudColl
         /\ runs' = [runs EXCEPT ![r] =
               [@ EXCEPT !.pc = "docker",
                         !.cloud_success = upsertOK,
                         !.cloud_logged = IF upsertOK THEN NoErr ELSE UpsertErr("cloud"),
                         !.log = Append(@, "upsert_cloud")]]
    /\ UNCHANGED <<fs, replicaColl, dockerColl, docker_available, storage,
                   ragVars, frontVars, last, started, search>>

\* store_embeddings_docker returns "docker_success or cloud_success" to
\* ingest_document; `called` says that it was called and has returned.
StoreDockerReturns(run, sd) ==
    [run EXCEPT !.pc = "finish",
                !.docker_success = sd.docker_success \/ sd.cloud_success,
                !.sd = [sd EXCEPT !.ret = sd.docker_success \/ sd.cloud_success,
                                  !.called = TRUE]]

\* After the write to docker localhost, or without it: the replica write,
\* or the return.
AfterDockerWrite(run, sd) ==
    IF ReplicaWriteTried(sd.skipped, sd.docker_success)
    THEN [run EXCEPT !.pc = "replica_upsert", !.sd = sd]
    ELSE StoreDockerReturns(run, sd)

\* "Try Local + Docker": local_embedding.embed_documents(chunks), one
\* request for each chunk.  An exception of a request ends the call, the
\* embeddings made so far are dropped with it, and the exception becomes
\* docker_error; docker_embedded then tells how many chunks had been embedded.
LocalEmbed(r) ==
    /\ runs[r].pc = "docker"
    /\ \E embed \in {NoErr} \cup LocalErrs :
         LET done == runs[r].docker_embedded + 1
         IN  runs' = [runs EXCEPT ![r] =
                IF embed # NoErr
                THEN [@ EXCEPT !.pc = "finish",
                               !.docker_error = embed,
                               !.log = Append(@, "embed_local")]
                ELSE IF done < runs[r].n
                THEN [@ EXCEPT !.docker_embedded = done]
                ELSE [@ EXCEPT !.pc = "docker_check",
                               !.docker_embedded = done,
                               !.log = Append(@, "embed_local")]]
    /\ UNCHANGED <<fs, cloudColl, replicaColl, dockerColl, docker_available, storage,
                   ragVars, frontVars, last, started, search>>

\* store_embeddings_docker begins: the replica collection is asked for the
\* fingerprint, and one that is found makes the store return False.
StoreCheckDocker(r) ==
    /\ runs[r].pc = "docker_check"
    /\ \E scrollFails \in BOOLEAN :
         LET skipped == check_document_exists(runs[r].md5, replicaColl, scrollFails)
             logged == [runs[r] EXCEPT !.log = Append(@, "store_exists_docker")]
         IN  runs' = [runs EXCEPT ![r] =
                IF skipped
                THEN StoreDockerReturns(logged, [NoStore EXCEPT !.skipped = TRUE])
                ELSE IF DockerWriteTried(skipped)
                THEN [logged EXCEPT !.pc = "docker_upsert"]
                ELSE AfterDockerWrite(logged, NoStore)]
    /\ UNCHANGED <<fs, cloudColl, replicaColl, dockerColl, docker_available, storage,
                   ragVars, frontVars, last, started, search>>

\* "if self.docker_available": the points are upserted on docker localhost;
\* an exception is logged.
DockerUpsert(r) ==
    /\ runs[r].pc = "docker_upsert"
    /\ \E dockerOK \in BOOLEAN :
         /\ dockerColl' = IF dockerOK
                          THEN Upsert(dockerColl,
                                      NewPoints(runs[r].call, runs[r].md5, runs[r].n, "local"))
                          ELSE dockerColl
         /\ runs' = [runs EXCEPT ![r] =
               AfterDockerWrite(
                   [@ EXCEPT !.docker_logged = IF dockerOK THEN NoErr
                                               ELSE UpsertErr("docker"),
                             !.log = Append(@, "upsert_docker")],
                   [NoStore EXCEPT !.dockerTried = TRUE, !.docker_success = dockerOK])]
    /\ UNCHANGED <<fs, cloudColl, replicaColl, docker_available, storage,
                   ragVars, frontVars, last, started, search>>

\* "Always replicate to cloud": the same points are upserted into the docker
\* collection of the cloud client; an exception is logged.
ReplicaUpsert(r) ==
    /\ runs[r].pc = "replica_upsert"
    /\ \E replicaOK \in BOOLEAN :
         /\ replicaColl' = IF replicaOK
                           THEN Upsert(replicaColl,
                                       NewPoints(runs[r].call, runs[r].md5, runs[r].n, "local"))
                           ELSE replicaColl
         /\ runs' = [runs EXCEPT ![r] =
               StoreDockerReturns(
                   [@ EXCEPT !.docker_logged = IF replicaOK THEN @
                                               ELSE UpsertErr("replica"),
                             !.log = Append(@, "upsert_replica")],
                   [runs[r].sd EXCEPT !.replicaTried = TRUE,
                                      !.cloud_success = replicaOK])]
    /\ UNCHANGED <<fs, cloudColl, dockerColl, docker_available, storage,
                   ragVars, frontVars, last, started, search>>

\* The move to the destination folder and the result message.
Finish(r) ==
    /\ runs[r].pc = "finish"
    /\ \E moveOK \in BOOLEAN :
         LET dest == _determine_destination(runs[r].cloud_success,
                                            runs[r].docker_success)
         IN  /\ fs' = MoveFile(fs, runs[r].file, dest, moveOK)
             /\ uploads' = Follow(uploads, runs[r].file,
                                  DestPath(fs, runs[r].file, dest),
                                  moveOK /\ OnDisk(fs, runs[r].file) # {})
             /\ runs' = [FollowRuns(runs, runs[r].file,
                                     DestPath(fs, runs[r].file, dest),
                                     moveOK /\ OnDisk(fs, runs[r].file) # {})
                         EXCEPT ![r] =
                   [@ EXCEPT !.pc = "done",
                             !.dest = dest,
                             !.moved = moveOK /\ OnDisk(fs, runs[r].file) # {},
                             !.log = Append(@, "move"),
                             !.result = ResultMessage(runs[r].cloud_success,
                                                      runs[r].docker_success,
                                                      runs[r].cloud_error,
                                                      runs[r].docker_error)]]
    /\ UNCHANGED <<cloudColl, replicaColl, dockerColl,
                   docker_available, storage, ragVars, bulk, web,
                   chatVars, chunker, unitVars, last, started, search>>

\* ingest_document returns to its caller; an upload handler that made the
\* call returns its response.
Return(r) ==
    /\ runs[r].pc = "done"
    /\ last' = [last EXCEPT !.md5 = runs[r].md5, !.kind = runs[r].result.kind,
                            !.fresh = runs[r].fresh]
    /\ runs' = [runs EXCEPT ![r] = IdleRun]
    /\ uploads' = [u \in Handlers |->
                     IF uploads[u].pc = "ingest" THEN ReturnedUpload ELSE uploads[u]]
    /\ UNCHANGED <<fs, cloudColl, replicaColl, dockerColl, docker_available,
                   storage, ragVars, bulk, web, chatVars, chunker, unitVars,
                   started, search>>

\* -------------------------------------------------------- search_docker
\* The k best points of a collection for some query vector: the ranking is
\* the search engine's, so any k points may come back.
TopK(coll, k) ==
    {h \in SUBSET coll : Cardinality(h) = Min(k, Cardinality(coll))}

\* Mutant: no fallback when docker was never available.
FallsBack_onErrorOnly(dockerSearched, dockerFails) == dockerFails

\* Whether search_docker falls back to the cloud replica collection.
FallsBack(dockerSearched, dockerFails) == ~dockerSearched \/ dockerFails

\* Mutant: every query is embedded by the Gemini provider.
QueryEmbedding_alwaysGemini(model_type) == "gemini"

\* The provider whose embed_query makes the query vector of RAGService.query:
\* gemini_embedding for model type "gemini", local_embedding otherwise.
QueryEmbedding(model_type) ==
    IF model_type = "gemini" THEN "gemini" ELSE "local"

\* The retrieval of a "gemini" query: search_cloud(query_vector, limit=4)
\* searches the cloud collection; an exception is raised to the caller.
\* query_stream makes the call on a worker thread, so a call of
\* ingest_document may be under way on the event loop.
SearchCloud ==
    /\ search = NoSearch
    /\ \E searchFails \in BOOLEAN :
         IF ~searchFails
         THEN \E hits \in TopK(cloudColl, SearchLimit) :
                search' = [status |-> "ok", source |-> "cloud", hits |-> hits,
                           tried |-> <<"search_cloud">>, dockerFailed |-> FALSE,
                           replicaFailed |-> FALSE, model_type |-> "gemini",
                           vector |-> QueryEmbedding("gemini")]
         ELSE search' = [status |-> "error", source |-> None, hits |-> {},
                         tried |-> <<"search_cloud">>, dockerFailed |-> FALSE,
                         replicaFailed |-> FALSE, model_type |-> "gemini",
                         vector |-> QueryEmbedding("gemini")]
    /\ UNCHANGED <<fs, cloudColl, replicaColl, dockerColl,
                   docker_available, storage, ragVars, frontVars, runs, last, started>>

\* The retrieval of a "qwen3" query:
\* search_docker(query_vector, limit=4): docker localhost first, when the
\* docker client of the query service's QdrantStorage came up at start; the
\* cloud replica otherwise or on an exception; an exception of the replica
\* search is raised to the caller.  RAGService.query alone calls it, on the
\* event loop.
SearchDocker ==
    /\ search = NoSearch
    /\ \A q \in Runs : runs[q].pc = "idle"
    /\ \E dockerFails \in BOOLEAN, replicaFails \in BOOLEAN :
         LET dockerSearched == docker_available["rag"]
             fallback == FallsBack(dockerSearched, dockerFails)
             tried == (IF dockerSearched THEN <<"search_docker">> ELSE <<>>)
                      \o (IF fallback THEN <<"search_replica">> ELSE <<>>)
         IN  IF ~fallback
             THEN \E hits \in TopK(dockerColl, SearchLimit) :
                    search' = [status |-> "ok", source |-> "docker", hits |-> hits,
                               tried |-> tried, dockerFailed |-> FALSE,
                               replicaFailed |-> FALSE, model_type |-> "qwen3",
                               vector |-> QueryEmbedding("qwen3")]
             ELSE IF ~replicaFails
             THEN \E hits \in TopK(replicaColl, SearchLimit) :
                    search' = [status |-> "ok", source |-> "replica", hits |-> hits,
                               tried |-> tried,
                               dockerFailed |-> dockerSearched /\ dockerFails,
                               replicaFailed |-> FALSE, model_type |-> "qwen3",
                               vector |-> QueryEmbedding("qwen3")]
             ELSE search' = [status |-> "error", source |-> None, hits |-> {},
                             tried |-> tried,
                             dockerFailed |-> dockerSearched /\ dockerFails,
                             replicaFailed |-> TRUE, model_type |-> "qwen3",
                             vector |-> QueryEmbedding("qwen3")]
    /\ UNCHANGED <<fs, cloudColl, replicaColl, dockerColl,
                   docker_available, storage, ragVars, frontVars, runs, last, started>>

\* The search result (or the exception) is handed to the caller.
SearchReturn ==
    /\ search # NoSearch
    /\ search' = NoSearch
    /\ UNCHANGED <<fs, cloudColl, replicaColl, dockerColl,
                   docker_available, storage, ragVars, frontVars, runs, last, started>>

\* ------------------------------------------------ QdrantStorage.__init__
\* main.py builds two QdrantStorage objects, the one of RAGService (which
\* searches) before the one of IngestionService (which writes); each runs the
\* constructor and has its own docker_available.
\* The calls of the constructor that reach a backend, in program order: the
\* first three inside the try block that re-raises, the last two inside the
\* try block that only logs a warning.
CloudSteps == <<"cloud_client", "cloud_collection", "cloud_docker_collection">>
DockerSteps == <<"docker_client", "docker_collection">>
InitSteps == {CloudSteps[i] : i \in DOMAIN CloudSteps}
                 \cup {DockerSteps[i] : i \in DOMAIN DockerSteps}

\* The first call of a try block that raises, None when none does.
FirstFailure(steps, failing) ==
    IF \E i \in DOMAIN steps : steps[i] \in failing
    THEN steps[CHOOSE i \in DOMAIN steps :
                 /\ steps[i] \in failing
                 /\ \A j \in 1..(i - 1) : steps[j] \notin failing]
    ELSE None

Unconstructed == [status |-> "uninitialized", raised |-> None,
                  docker_ensured |-> FALSE]
Constructed(docker_ensured) == [status |-> "ready", raised |-> None,
                                docker_ensured |-> docker_ensured]

\* Mutant: the docker backend is taken as available whatever its try block did.
DockerAvailableAfter_ignoringFailure(docker_failure) == TRUE

\* self.docker_available = False before the try block, True at its end.
DockerAvailableAfter(docker_failure) == docker_failure = None

\* The services are built in this order at the import of main.py; an
\* exception of the first ends the import.
ConstructionOrder == <<"rag", "ingestion">>

\* QdrantStorage() of service s: `failing` are the calls that would raise.
Construct(s) ==
    /\ storage[s].status = "uninitialized"
    /\ \E i \in DOMAIN ConstructionOrder :
          /\ ConstructionOrder[i] = s
          /\ \A j \in 1..(i - 1) : storage[ConstructionOrder[j]].status = "ready"
    /\ \E failing \in SUBSET InitSteps :
         LET cloud_failure == FirstFailure(CloudSteps, failing)
             docker_failure == FirstFailure(DockerSteps, failing)
         IN  IF cloud_failure # None
             THEN /\ storage' = [storage EXCEPT ![s] =
                                    [status |-> "error", raised |-> cloud_failure,
                                     docker_ensured |-> FALSE]]
                  /\ UNCHANGED docker_available
             ELSE /\ storage' = [storage EXCEPT ![s] = Constructed(docker_failure = None)]
                  /\ docker_available' = [docker_available EXCEPT ![s] =
                                             DockerAvailableAfter(docker_failure)]
    /\ UNCHANGED <<fs, cloudColl, replicaColl, dockerColl, runs, last, started,
                   search, ragVars, frontVars>>


\* ================================================================ queries
\* Texts are sequences of characters.  SENTINEL stands for the eight
\* characters "SOURCES:" in any mix of upper and lower case (the patterns
\* are compiled with re.IGNORECASE); "a" stands for any character that is
\* neither a digit, a comma nor white space.
SENTINEL == "SOURCES:"
Whitespace == {" ", "\n"}
DigitChars == <<"0", "1", "2", "3", "4", "5", "6", "7", "8", "9">>
Digits == {DigitChars[d] : d \in DOMAIN DigitChars}
\* The characters of the class [0-9,\s].
Class == Digits \cup {","} \cup Whitespace

\* int(n) of a string of digits.
RECURSIVE IntOf(_)
IntOf(ds) ==
    IF ds = <<>> THEN 0
    ELSE 10 * IntOf(SubSeq(ds, 1, Len(ds) - 1))
         + (CHOOSE d \in DOMAIN DigitChars : DigitChars[d] = ds[Len(ds)]) - 1

\* The length of the longest prefix of s made of characters of `chars`
\* (what a greedy starred character class consumes).
Run(s, chars) ==
    CHOOSE k \in 0..Len(s) :
        /\ \A i \in 1..k : s[i] \in chars
        /\ k < Len(s) => s[k + 1] \notin chars

\* re.findall(r'\d+', s), each match converted with int().
RECURSIVE FindAllNumbers(_)
FindAllNumbers(s) ==
    IF s = <<>> THEN <<>>
    ELSE IF s[1] \notin Digits THEN FindAllNumbers(Tail(s))
    ELSE LET k == Run(s, Digits)
         IN  <<IntOf(SubSeq(s, 1, k))>> \o FindAllNumbers(SubSeq(s, k + 1, Len(s)))

\* [int(n) for n in numbers if 1 <= int(n) <= 4]
MaxSourceIndex == 4

\* Mutant: every declared number is kept.
ValidIndex_any(n) == TRUE

ValidIndex(n) == 1 <= n /\ n <= MaxSourceIndex

\* _extract_source_indices: re.search(r'SOURCES:\s*([0-9,\s]+)', response)
\* finds the first sentinel that a character of the class follows; group 1
\* is the run of class characters after the white space the \s* consumed
\* (the last white space character when nothing else of the class follows).
\* The value is the list of the numbers found in group 1.
DeclaredNumbers(response) ==
    LET starts == {i \in 1..(Len(response) - 1) :
                     response[i] = SENTINEL /\ response[i + 1] \in Class}
    IN  IF starts = {} THEN <<>>
        ELSE LET i == CHOOSE m \in starts : \A o \in starts : m <= o
                 rest == SubSeq(response, i + 1, Len(response))
                 ws == Run(rest, Whitespace)
                 after == SubSeq(rest, ws + 1, Len(rest))
                 source_str == IF Run(after, Class) > 0
                               THEN SubSeq(after, 1, Run(after, Class))
                               ELSE <<rest[ws]>>
             IN  FindAllNumbers(source_str)

_extract_source_indices(response) ==
    SelectSeq(DeclaredNumbers(response), ValidIndex)

\* response.strip()
Strip(s) ==
    LET lead == Run(s, Whitespace)
        body == SubSeq(s, lead + 1, Len(s))
        inked == {i \in DOMAIN body : body[i] \notin Whitespace}
    IN  IF inked = {} THEN <<>>
        ELSE SubSeq(body, 1, CHOOSE m \in inked : \A o \in inked : o <= m)

\* Where r'\n*SOURCES:\s*[0-9,\s]+\s*$' matches: at i when newlines, the
\* sentinel and then one or more class characters up to the end follow.
TrailerAt(response, i) ==
    \E j \in i..(Len(response) - 1) :
        /\ \A k \in i..(j - 1) : response[k] = "\n"
        /\ response[j] = SENTINEL
        /\ \A k \in (j + 1)..Len(response) : response[k] \in Class

\* Mutant: the sentinel and everything after it is cut wherever it stands.
TrailerStart_anywhere(response) ==
    LET at == {i \in DOMAIN response : response[i] = SENTINEL}
    IN  IF at = {} THEN 0 ELSE CHOOSE m \in at : \A o \in at : m <= o

\* The leftmost position where the pattern matches, 0 when it does not.
TrailerStart(response) ==
    LET at == {i \in DOMAIN response : TrailerAt(response, i)}
    IN  IF at = {} THEN 0 ELSE CHOOSE m \in at : \A o \in at : m <= o

\* _remove_sources_line (GeminiLLM, LocalLLM) and
\* _remove_sources_line_from_text (RAGService): re.sub(...).strip()
_remove_sources_line(response) ==
    LET i == TrailerStart(response)
    IN  Strip(IF i = 0 THEN response ELSE SubSeq(response, 1, i - 1))

\* The markers of a reasoning block, each one symbol of a text.
THINK_OPEN == "<think>"
THINK_CLOSE == "</think>"

\* LocalLLM._extract_thinking: when both markers occur, the text between the
\* first "<think>" and the first "</think>" is the thinking, and the
\* response is what stands before the first "<think>" followed by what
\* stands after the first "</think>", both stripped; otherwise the response
\* as it is and None.
_extract_thinking(response) ==
    LET opens == {i \in DOMAIN response : response[i] = THINK_OPEN}
        closes == {i \in DOMAIN response : response[i] = THINK_CLOSE}
    IN  IF opens # {} /\ closes # {}
        THEN LET start == CHOOSE m \in opens : \A o \in opens : m <= o
                 close == CHOOSE m \in closes : \A o \in closes : m <= o
             IN  [cleaned_response |->
                      Strip(SubSeq(response, 1, start - 1)
                            \o SubSeq(response, close + 1, Len(response))),
                  thinking |-> Strip(SubSeq(response, start + 1, close - 1))]
        ELSE [cleaned_response |-> response, thinking |-> NoThinking]

\* GeminiLLM.generate_response_with_sources on the model's text: the
\* indices read from it and the text without its sources line.
GeminiAnswer(result) ==
    [response |-> _remove_sources_line(result),
     thinking |-> NoThinking,
     sources |-> _extract_source_indices(result)]

\* LocalLLM._generate_with_lmstudio / _generate_with_hf on the model's text:
\* the reasoning block is taken out first, and the indices and the sources
\* line are read from what remains.
LocalAnswer(result) ==
    LET extracted == _extract_thinking(result)
    IN  [response |-> _remove_sources_line(extracted.cleaned_response),
         thinking |-> extracted.thinking,
         sources |-> _extract_source_indices(extracted.cleaned_response)]

\* ---------------------------------------------------- RAGService.query
\* A search result: the payload of a stored chunk.
Hit(c) == [text |-> <<"chunk", c>>, chunkno |-> c]

\* What search_cloud / search_docker return for limit=4: up to SearchLimit
\* chunks in similarity order, which is any order of their chunk numbers.
SearchResults ==
    {[i \in 1..n |-> Hit(IF rising THEN i ELSE n + 1 - i)] :
        n \in 0..SearchLimit, rising \in BOOLEAN}

\* _build_context: the i-th result becomes the block "[Document i]" (for no
\* result the context is a fixed sentence that numbers nothing).
_build_context(search_results) ==
    [i \in DOMAIN search_results |->
        [Document |-> i, text |-> search_results[i].text]]

\* used_indices[:3]
MaxSources == 3
\* list(range(1, min(4, len(search_results) + 1)))
DefaultStop == 4

\* The source dictionary built from a result.
Source(result) == [text |-> result.text, chunkno |-> result.chunkno]

\* Mutant: the index counts from the last result.
ResultAt_fromLast(search_results, idx) ==
    search_results[Len(search_results) + 1 - idx]

\* search_results[idx - 1] of the 0-based Python list.
ResultAt(search_results, idx) == search_results[idx]

\* Mutant: no default when no index was given.
DefaultIndices_none(n) == <<>>

\* All sources in order, when the model gave no index.
DefaultIndices(n) == [i \in 1..(Min(DefaultStop, n + 1) - 1) |-> i]

_extract_sources(search_results, used_indices) ==
    LET n == Len(search_results)
        used == IF used_indices = <<>> THEN DefaultIndices(n) ELSE used_indices
        first == SubSeq(used, 1, Min(MaxSources, Len(used)))
        InRange(idx) == 1 <= idx /\ idx <= n
        kept == SelectSeq(first, InRange)
    IN  [j \in DOMAIN kept |-> Source(ResultAt(search_results, kept[j]))]

\* ---- what the language model may answer
\* Longest list of numbers the model declares in its trailer.
MaxDeclared == 4
\* The numbers it declares: the "none used" 0, numbers of documents, and a
\* number no document has.
Declarable == {0, 1, 2, 4, 12}
Declarations == UNION {[1..k -> Declarable] : k \in 0..MaxDeclared}

\* str(n)
RECURSIVE Str(_)
Str(n) == IF n < 10 THEN <<DigitChars[n + 1]>>
          ELSE Str(n \div 10) \o <<DigitChars[(n % 10) + 1]>>

\* ", ".join(str(n) for n in declared)
RECURSIVE Join(_)
Join(declared) ==
    IF declared = <<>> THEN <<>>
    ELSE IF Len(declared) = 1 THEN Str(declared[1])
    ELSE Str(declared[1]) \o <<",", " ">> \o Join(Tail(declared))

\* The answer proper: empty, plain, or quoting a sources line in its middle.
Bodies == {<<>>, <<"a">>, <<"a", "\n", SENTINEL, " ", "1", "\n", "a">>}
\* The trailer: none, one without a number, or one that declares numbers.
Trailers == {<<>>, <<"\n", SENTINEL, " ", "a">>}
                \cup {<<"\n", SENTINEL, " ">> \o Join(d) : d \in Declarations}
\* What follows the trailer: nothing, a newline, or more text.
Tails == {<<>>, <<"\n">>, <<" ", "a">>}
PlainResponses == {b \o t \o e : b \in Bodies, t \in Trailers, e \in Tails}

\* A reasoning block, as the qwen models write it.
Thought == <<THINK_OPEN, "a", THINK_CLOSE>>
\* The trailers of the texts that hold a reasoning block: none, one without
\* a number, or one that declares up to one number.
ShortTrailers == {<<>>, <<"\n", SENTINEL, " ", "a">>}
                    \cup {<<"\n", SENTINEL, " ">> \o Join(d) :
                             d \in {x \in Declarations : Len(x) <= 1}}
\* The block stands before the answer or after it, or its markers come in
\* the wrong order around the answer.
ThinkResponses ==
    UNION {{Thought \o <<"\n">> \o b \o t \o e,
            b \o t \o e \o Thought,
            <<THINK_CLOSE>> \o b \o t \o e \o <<THINK_OPEN>>} :
           b \in Bodies, t \in ShortTrailers, e \in Tails}
\* The texts tried with each model: the plain ones in full for "gemini";
\* for "qwen3" those with a reasoning block, and of the plain ones those
\* with a short trailer and those of a one-letter answer with any trailer.
ResponsesOf(model_type) ==
    IF model_type = "gemini" THEN PlainResponses \cup ThinkResponses
    ELSE ThinkResponses
            \cup {b \o t \o e : b \in Bodies, t \in ShortTrailers, e \in Tails}
            \cup {<<"a">> \o t : t \in Trailers}

\* The activation with the provider's return value in hand.
Answered(q, result, answer) ==
    [q EXCEPT !.pc = "sources",
              !.result = result,
              !.used_sources = answer.sources,
              !.thinking = answer.thinking,
              !.response = answer.response]

\* ---- the handler
\* embed_query and search_cloud / search_docker; both may raise.
Retrieve ==
    /\ query.pc = "idle"
    /\ \E model_type \in ModelTypes :
         \/ \E results \in SearchResults :
              query' = [query EXCEPT !.pc = "context", !.model_type = model_type,
                                     !.search_results = results]
         \/ query' = [query EXCEPT !.pc = "raised", !.model_type = model_type]
    /\ UNCHANGED <<storeVars, frontVars, embedVars>>

BuildContext ==
    /\ query.pc = "context"
    /\ query' = [query EXCEPT !.pc = "generate",
                              !.context = _build_context(query.search_results)]
    /\ UNCHANGED <<storeVars, frontVars, embedVars>>

\* generate_response_with_sources of gemini_llm or local_llm: the model's
\* text, and what the provider makes of it.  The call of the model may raise
\* (local_llm asks LM Studio or HuggingFace as its flag says, and raises when
\* the one it falls back to fails).
Generate ==
    /\ query.pc = "generate"
    /\ \/ \E result \in ResponsesOf(query.model_type) :
            query' = Answered(query, result,
                              IF query.model_type = "gemini"
                              THEN GeminiAnswer(result) ELSE LocalAnswer(result))
       \/ query' = [query EXCEPT !.pc = "raised"]
    /\ UNCHANGED <<storeVars, frontVars, embedVars>>

ExtractSources ==
    /\ query.pc = "sources"
    /\ query' = [query EXCEPT !.pc = "save",
                              !.sources = _extract_sources(query.search_results,
                                                           query.used_sources)]
    /\ UNCHANGED <<storeVars, frontVars, embedVars>>

\* query returns (response, thinking, chat_id, sources) or re-raises.
QueryReturn ==
    /\ query.pc \in {"save", "raised"}
    /\ query' = IdleQuery
    /\ UNCHANGED <<storeVars, frontVars, embedVars>>

\* ======================================================== GeminiEmbedding
\* Longest list of texts handed to embed_documents.
MaxTexts == 150
\* Number of embed_documents calls on the provider in a behaviour.
MaxEmbedCalls == 2

\* wait_time = 60, the minute's budget of 49 requests of a key
CooldownSeconds == 60
\* Time passes between calls in steps of half a minute.
ElapseSeconds == 30

\* The lengths tried: around the multiples of the batch size, and the longest.
TextCounts ==
    {n \in 0..MaxTexts : n % BATCH_SIZE \in {0, 1, 3, BATCH_SIZE - 1}
                         \/ n = MaxTexts}
\* The chunk texts of a document, and the vector a provider returns for one.
Texts(n) == [i \in 1..n |-> <<"chunk", i>>]
Embedding(text) == <<"embedding", text[2]>>

\* Mutant: the rest of the list is sent as one batch.
BatchEnd_rest(i, n) == n

\* texts[i:i + BATCH_SIZE] ends at i + BATCH_SIZE or at the end of the list.
BatchEnd(i, n) == Min(i + BATCH_SIZE, n)

\* Odd batches use client (key 1), even batches client2 when there is one.
CurrentKey(has_second_key, batch_num) ==
    IF has_second_key /\ batch_num % 2 = 0 THEN 2 ELSE 1

\* Mutant: with two keys the sleep follows the odd batches.
Cooldown_afterOdd(has_second_key, i, n) ==
    /\ i + BATCH_SIZE < n
    /\ has_second_key => ((i \div BATCH_SIZE) + 1) % 2 = 1

\* Whether time.sleep(60) follows the batch that starts at offset i.
Cooldown(has_second_key, i, n) ==
    /\ i + BATCH_SIZE < n
    /\ has_second_key => ((i \div BATCH_SIZE) + 1) % 2 = 0

\* The API's view after `seconds` more: requests older than a minute no
\* longer count against the budget.
Aged(requests, seconds) ==
    LET older == [k \in DOMAIN requests |->
                     [requests[k] EXCEPT !.age = @ + seconds]]
        InWindow(r) == r.age < CooldownSeconds
    IN  SelectSeq(older, InWindow)

\* The fields class Settings declares.
SettingsFields ==
    {"gemini_api_key", "qdrant_api_key", "hf_token", "mongo_uri", "mongo_db_name",
     "mongo_collection_name", "qdrant_cloud_url", "qdrant_docker_url",
     "qdrant_cloud_collection", "qdrant_docker_collection", "lmstudio_url",
     "gemini_embedding_model", "gemini_chat_model", "gemini_tts_model",
     "gemini_live_model", "local_embedding_model", "local_chat_model",
     "hf_embedding_model", "hf_chat_model", "gemini_embedding_dim",
     "local_embedding_dim", "chunk_size", "chunk_overlap",
     "generate_embeddings_folder", "stored_folder", "stored_docker_only_folder",
     "stored_cloud_only_folder", "user_chat_folder", "logs_folder"}

\* A Settings class that also declares the field GeminiEmbedding.__init__
\* reads for the second key; the class of config.py does not.
SettingsWithSecondKey == SettingsFields \cup {"gemini_api_key2"}

\* GeminiEmbedding(): "if settings.gemini_api_key2" raises AttributeError
\* when the settings object has no such field; with the field, the second
\* client is built when the key is not empty, and an exception of its
\* construction leaves the provider with one key.
GeminiInit(fields, key2_set, client2OK) ==
    IF "gemini_api_key2" \notin fields
    THEN [raised |-> "AttributeError", has_second_key |-> FALSE]
    ELSE [raised |-> None, has_second_key |-> key2_set /\ client2OK]

\* The provider before its constructor has run.
NewGemini == [IdleGemini(FALSE) EXCEPT !.pc = "new"]

\* GeminiEmbedding() is called, on the settings of config.py or on settings
\* that declare the second key.
GeminiConstruct ==
    /\ gemini.pc = "new"
    /\ \E fields \in {SettingsFields, SettingsWithSecondKey},
          key2_set \in BOOLEAN, client2OK \in BOOLEAN :
         LET built == GeminiInit(fields, key2_set, client2OK)
         IN  gemini' = IF built.raised # None
                       THEN [gemini EXCEPT !.pc = "init_raised"]
                       ELSE IdleGemini(built.has_second_key)
    /\ UNCHANGED <<storeVars, frontVars, query, window, local>>

\* embed_documents(texts): the empty list raises ValueError before any
\* request (the except clause logs it and raises it again).
GeminiEmbedDocuments ==
    /\ gemini.pc = "idle"
    /\ gemini.calls < MaxEmbedCalls
    /\ \E n \in TextCounts :
         gemini' = [gemini EXCEPT !.calls = @ + 1,
                                  !.texts = Texts(n),
                                  !.pc = IF n = 0 THEN "raised" ELSE "batch"]
    /\ UNCHANGED <<storeVars, frontVars, query, window, local>>

\* One pass of the loop: the request for the batch at offset i, which may
\* raise, the vectors appended in order, and the decision to sleep.
GeminiBatch ==
    /\ gemini.pc = "batch"
    /\ LET n == Len(gemini.texts)
           i == gemini.i
           batch == SubSeq(gemini.texts, i + 1, BatchEnd(i, n))
           batch_num == (i \div BATCH_SIZE) + 1
           key == CurrentKey(gemini.has_second_key, batch_num)
       IN  /\ window' = Append(window, [key |-> key, n |-> Len(batch), age |-> 0])
           /\ \E ok \in BOOLEAN :
                gemini' =
                  IF ~ok
                  THEN [gemini EXCEPT !.pc = "raised",
                                      !.batches = Append(@, [key |-> key, texts |-> batch,
                                                            at |-> gemini.waited])]
                  ELSE [gemini EXCEPT
                          !.batches = Append(@, [key |-> key, texts |-> batch,
                                                            at |-> gemini.waited]),
                          !.all_embeddings =
                              @ \o [k \in DOMAIN batch |-> Embedding(batch[k])],
                          !.i = i + BATCH_SIZE,
                          !.pc = IF Cooldown(gemini.has_second_key, i, n) THEN "sleep"
                                 ELSE IF i + BATCH_SIZE < n THEN "batch"
                                 ELSE "returned"]
    /\ UNCHANGED <<storeVars, frontVars, query, local>>

\* time.sleep(wait_time)
GeminiCooldown ==
    /\ gemini.pc = "sleep"
    /\ gemini' = [gemini EXCEPT !.pc = "batch", !.waited = @ + CooldownSeconds]
    /\ window' = Aged(window, CooldownSeconds)
    /\ UNCHANGED <<storeVars, frontVars, query, local>>

\* embed_documents returns all_embeddings or raises.
GeminiReturn ==
    /\ gemini.pc \in {"returned", "raised"}
    /\ gemini' = [IdleGemini(gemini.has_second_key) EXCEPT !.calls = gemini.calls]
    /\ UNCHANGED <<storeVars, frontVars, query, window, local>>

\* Time passes between two calls (the caller loads, stores and moves files).
Elapse ==
    /\ gemini.pc = "idle"
    /\ window # <<>>
    /\ window' = Aged(window, ElapseSeconds)
    /\ UNCHANGED <<storeVars, frontVars, query, gemini, local>>

\* ========================================================= LocalEmbedding
\* Longest list of texts handed to the local provider.
MaxLocalTexts == 2
\* Number of calls on each LocalEmbedding in a behaviour.
MaxLocalCalls == 2

\* RAGService embeds queries, IngestionService embeds the chunks of documents.
MethodsOf(s) == IF s = "rag" THEN {"embed_query"} ELSE {"embed_documents"}
\* embed_query(text) takes one text, embed_documents(texts) a list.
LocalInputs(method) ==
    IF method = "embed_query" THEN {Texts(1)}
    ELSE {Texts(n) : n \in 0..MaxLocalTexts}

\* if self.use_fallback: _embed_with_hf, else: _embed_with_lmstudio
FirstTarget(use_fallback) == IF use_fallback THEN "hf" ELSE "lmstudio"

Contact(to, text, ok) == [to |-> to, text |-> text, ok |-> ok]

\* Mutant: a failure of LM Studio is not retried.
Contacts_noRetry(use_fallback, text, lmOK, hfOK) ==
    IF FirstTarget(use_fallback) = "hf" THEN <<Contact("hf", text, hfOK)>>
    ELSE <<Contact("lmstudio", text, lmOK)>>

\* The requests made for one text: HuggingFace when the flag is set; else LM
\* Studio and, when that raises, HuggingFace for the same text.
Contacts(use_fallback, text, lmOK, hfOK) ==
    IF FirstTarget(use_fallback) = "hf" THEN <<Contact("hf", text, hfOK)>>
    ELSE IF lmOK THEN <<Contact("lmstudio", text, TRUE)>>
    ELSE <<Contact("lmstudio", text, FALSE), Contact("hf", text, hfOK)>>

\* embed_query(text) / embed_documents(texts) is called; the loop of
\* embed_documents has nothing to do for an empty list.
LocalCall(s) ==
    /\ \A t \in Services : local[t].pc = "idle"
    /\ local[s].calls < MaxLocalCalls
    /\ \E method \in MethodsOf(s) : \E texts \in LocalInputs(method) :
         local' = [local EXCEPT ![s] =
            [@ EXCEPT !.calls = @ + 1, !.method = method, !.texts = texts,
                      !.pc = IF texts = <<>> THEN "returned" ELSE "loop"]]
    /\ UNCHANGED <<storeVars, frontVars, query, gemini, window>>

\* The embedding of the next text.  The bare except of the inner try sets
\* use_fallback; an exception of _embed_with_hf leaves the method.
LocalEmbedText(s) ==
    /\ local[s].pc = "loop"
    /\ \E lmOK \in BOOLEAN, hfOK \in BOOLEAN :
         LET me == local[s]
             text == me.texts[Len(me.embeddings) + 1]
             made == Contacts(me.use_fallback, text, lmOK, hfOK)
             ok == made[Len(made)].ok
         IN  local' = [local EXCEPT ![s] =
                [@ EXCEPT
                   !.use_fallback = @ \/ (made[1].to = "lmstudio" /\ ~made[1].ok),
                   !.log = @ \o made,
                   !.embeddings = IF ok THEN Append(@, Embedding(text)) ELSE @,
                   !.pc = IF ~ok THEN "raised"
                          ELSE IF Len(me.embeddings) + 1 = Len(me.texts)
                          THEN "returned" ELSE "loop"]]
    /\ UNCHANGED <<storeVars, frontVars, query, gemini, window>>

\* The method returns its embeddings or raises; the flag stays.
LocalReturn(s) ==
    /\ local[s].pc \in {"returned", "raised"}
    /\ local' = [local EXCEPT ![s] =
          [IdleLocal(@.use_fallback) EXCEPT !.calls = local[s].calls]]
    /\ UNCHANGED <<storeVars, frontVars, query, gemini, window>>

\* ================================================= ingest_all_documents
\* The endpoints are coroutines that call the services synchronously, so
\* one request is served at a time.
IdleBulk == [pc |-> "idle", listed |-> {}, files |-> <<>>, results |-> <<>>,
             stored |-> {}]

\* The suffixes ingest_all_documents accepts.
Suffixes == {".txt", ".pdf", ".docx", ".doc", ".md", ".csv"}

\* Mutant: every file of the folder is taken, whatever its suffix.
Eligible_anySuffix(files) ==
    {f \in files : f.folder = generate_embeddings_folder}

\* The files of the folder itself (not of its subdirectories) with an
\* accepted suffix.
Eligible(files) ==
    {f \in files : f.folder = generate_embeddings_folder /\ f.ext \in Suffixes}

\* file_path.name
Name(f) == [name |-> f.name, sfx |-> f.sfx, ext |-> f.ext]

\* The orders in which folder.iterdir() may list a set of files.
Listings(files) ==
    {order \in [1..Cardinality(files) -> files] :
        \A i, j \in DOMAIN order : order[i] = order[j] => i = j}

\* The listing of the folder, before the first file is ingested.
BulkStart ==
    /\ bulk.pc = "idle"
    /\ web.pc = "idle"
    /\ \A q \in Runs : runs[q].pc = "idle"
    /\ \E order \in Listings(Eligible(fs)) :
         bulk' = [pc |-> "loop", listed |-> fs, files |-> order, results |-> <<>>,
                  stored |-> {p.md5 : p \in cloudColl \cup replicaColl \cup dockerColl}]
    /\ UNCHANGED <<storeVars, ragVars, uploads, web, chatVars, chunker, unitVars>>

\* for file_path in files: ingest_document(str(file_path)) is called.
BulkIngest(r) ==
    /\ bulk.pc = "loop"
    /\ Len(bulk.results) < Len(bulk.files)
    /\ Begin(r, [bulk.files[Len(bulk.results) + 1] EXCEPT !.doc = <<>>])
    /\ bulk' = [bulk EXCEPT !.pc = "call"]
    /\ UNCHANGED <<fs, cloudColl, replicaColl, dockerColl, docker_available,
                   storage, last, search, ragVars, uploads, web, chatVars, chunker, unitVars>>

\* ingest_document returned: results.append((file_path.name, success, message))
BulkCollect(r) ==
    /\ bulk.pc = "call"
    /\ runs[r].pc = "done"
    /\ bulk' = [bulk EXCEPT
                  !.pc = "loop",
                  !.results = Append(@, [name |-> Name(runs[r].file),
                                         success |-> runs[r].result.success,
                                         message |-> runs[r].result])]
    /\ last' = [last EXCEPT !.md5 = runs[r].md5, !.kind = runs[r].result.kind,
                            !.fresh = runs[r].fresh]
    /\ runs' = [runs EXCEPT ![r] = IdleRun]
    /\ UNCHANGED <<fs, cloudColl, replicaColl, dockerColl, docker_available,
                   storage, started, search, ragVars, uploads, web, chatVars, chunker, unitVars>>

\* return results
BulkReturn ==
    /\ bulk.pc = "loop"
    /\ Len(bulk.results) = Len(bulk.files)
    /\ bulk' = [bulk EXCEPT !.pc = "returned"]
    /\ UNCHANGED <<storeVars, ragVars, uploads, web, chatVars, chunker, unitVars>>

\* ======================================================= ingest_website
\* The methods the classes define (the names ingest_website looks up).
DocumentProcessorMethods ==
    {"__init__", "_initialize_semantic_chunker", "preprocess_text",
     "load_document", "_chunk_text", "_load_website",
     "_process_csv_with_metadata", "_process_pdf_with_metadata",
     "get_document_metadata", "calculate_md5"}
QdrantStorageMethods ==
    {"__init__", "_ensure_collection", "_ensure_payload_indexes",
     "check_document_exists", "store_embeddings_cloud", "store_embeddings_docker",
     "search_cloud", "search_docker"}

IdleWeb == [pc |-> "idle", chunks |-> 0, geminiOK |-> FALSE, localOK |-> FALSE,
            result |-> [success |-> FALSE, kind |-> None, parts |-> <<>>]]

\* Whether the attribute lookup obj.name finds a method; it raises
\* AttributeError otherwise.
Defines(methods, name) == name \in methods

\* ingest_website(url) for a page that would load into `chunks` chunks, with
\* embedding providers that answer or raise.
ingest_website(chunks, geminiOK, localOK) ==
    IF ~Defines(DocumentProcessorMethods, "load_website")
    THEN Msg(FALSE, "error", <<>>)
    ELSE LET cloud_success == geminiOK /\ Defines(QdrantStorageMethods, "add_to_cloud")
             docker_success == localOK /\ Defines(QdrantStorageMethods, "add_to_docker")
         IN  IF cloud_success /\ docker_success THEN Msg(TRUE, "both", <<>>)
             ELSE IF cloud_success THEN Msg(TRUE, "cloud_only", <<>>)
             ELSE IF docker_success THEN Msg(TRUE, "docker_only", <<>>)
             ELSE Msg(FALSE, "failed", <<>>)

\* POST /ingest-website
WebIngest ==
    /\ web.pc = "idle"
    /\ bulk.pc = "idle"
    /\ \E chunks \in 1..MaxChunks, geminiOK \in BOOLEAN, localOK \in BOOLEAN :
         web' = [pc |-> "returned", chunks |-> chunks,
                 geminiOK |-> geminiOK, localOK |-> localOK,
                 result |-> ingest_website(chunks, geminiOK, localOK)]
    /\ UNCHANGED <<storeVars, ragVars, uploads, bulk, chatVars, chunker, unitVars>>

\* The endpoint answers with IngestionResponse(success, message, url).
WebReturn ==
    /\ web.pc = "returned"
    /\ web' = IdleWeb
    /\ UNCHANGED <<storeVars, ragVars, uploads, bulk, chatVars, chunker, unitVars>>


\* =================================================== ChatStorageService
\* Number of query and query_stream calls in a behaviour.
MaxQueries == 2

\* chat_id None, the ids a caller makes up, and the k-th str(uuid4()).
NoChat == <<None, 0>>
CallerIds == {<<"caller", 1>>}
Uuid4(k) == <<"uuid4", k>>


\* A message of a history (the time stamps are left out).
UserMessage(user_query) ==
    [role |-> "user", content |-> user_query, thinking |-> <<>>, sources |-> <<>>]
AssistantMessage(response, thinking, sources) ==
    [role |-> "assistant", content |-> response, thinking |-> thinking,
     sources |-> sources]

\* The service after __init__: MongoDB answered the ping or did not; the
\* collection and the folder of JSON files hold one document per chat_id;
\* `broken` are the chat ids whose JSON file does not parse.
NoSaved == [chat_id |-> NoChat, model_type |-> None, messages |-> <<>>]
NoChats(mongo_available) ==
    [mongo_available |-> mongo_available, mongo |-> {}, json |-> {},
     broken |-> {}, generated |-> 0, asked |-> 0, saved |-> NoSaved]

\* find_one({"chat_id": chat_id}) and the file <chat_id>.json
Find(store, chat_id) == {d \in store : d.chat_id = chat_id}
Messages(found) == IF found = {} THEN <<>> ELSE (CHOOSE d \in found : TRUE).messages

\* replace_one({"chat_id": chat_id}, data, upsert=True)
Replace(store, data) == {d \in store : d.chat_id # data.chat_id} \cup {data}

\* _load_from_json: the messages of the file, [] when there is no file, when
\* it cannot be read or when what it holds does not parse.
_load_from_json(chat_id, jsonFails) ==
    IF jsonFails \/ chat_id \in chat.broken
    THEN <<>>
    ELSE Messages(Find(chat.json, chat_id))

\* load_chat_history: the messages MongoDB holds when it is available, the
\* read does not raise and a document is found; those of the JSON file
\* otherwise.
load_chat_history(chat_id, mongoFails, jsonFails) ==
    IF chat.mongo_available /\ ~mongoFails /\ Find(chat.mongo, chat_id) # {}
    THEN Messages(Find(chat.mongo, chat_id))
    ELSE _load_from_json(chat_id, jsonFails)

\* The dictionary save_chat_history builds (the time stamps are left out).
ChatData(chat_id, messages, model_type) ==
    [chat_id |-> chat_id, model_type |-> model_type, messages |-> messages]

\* _save_to_json, first half: open(chat_file, 'w') truncates the file, so
\* until json.dump has written and the file is closed it holds nothing that
\* parses; an open that raises leaves the file alone and False is returned.
OpenForWriting(chat_id, openFails) ==
    IF openFails
    THEN [chat EXCEPT !.saved = NoSaved]
    ELSE [chat EXCEPT !.json = {d \in @ : d.chat_id # chat_id},
                      !.broken = @ \cup {chat_id}]

\* _save_to_json, second half: json.dump and the close of the file; when the
\* write raises the fragment stays in the file and False is returned.
_save_to_json(data, writeFails) ==
    IF writeFails
    THEN [chat EXCEPT !.saved = NoSaved]
    ELSE [chat EXCEPT !.json = Replace(@, data),
                      !.broken = @ \ {data.chat_id},
                      !.saved = data]

\* Whether save_chat_history ends with replace_one, rather than going on to
\* the JSON file.
SavedToMongo(mongoFails) == chat.mongo_available /\ ~mongoFails

\* save_chat_history up to the open of the JSON file: MongoDB when it is
\* available and the write does not raise, the JSON file otherwise.  The
\* field `saved` keeps the data of the latest call that returned True.
save_chat_history(data, mongoFails, openFails) ==
    IF SavedToMongo(mongoFails)
    THEN [chat EXCEPT !.mongo = Replace(@, data), !.saved = data]
    ELSE OpenForWriting(data.chat_id, openFails)

\* ------------------------------------- RAGService.query and its history
\* The same handler as above, seen from the chat history: the retrieval and
\* the generation are one step here, whose outcome is the response with its
\* attributions, or an exception.  The handler runs on the event loop, one
\* call at a time; the generators of query_stream run on worker threads.
IdleTurn ==
    [pc |-> "idle", supplied |-> NoChat, chat_id |-> NoChat, model_type |-> None,
     user_query |-> <<>>, chat_history |-> <<>>, response |-> <<>>,
     thinking |-> <<>>, sources |-> <<>>, before |-> NoChats(FALSE),
     json_failed |-> FALSE]

\* The ids a caller may pass: its own, or one an earlier call returned.
Suppliable == {NoChat} \cup CallerIds \cup {Uuid4(k) : k \in 1..chat.generated}

\* "if not chat_id: chat_id = str(uuid4())"
ChatId(supplied) ==
    IF supplied = NoChat THEN Uuid4(chat.generated + 1) ELSE supplied

\* The user's question of the k-th call.
UserQuery(k) == <<"query", DigitChars[k + 1]>>

\* What the model answers, its reasoning trace (LocalLLM only) and the
\* attributions _extract_sources makes of it.
ChatResponses == {<<"a">>}
Thinkings(model_type) == IF model_type = "gemini" THEN {<<>>} ELSE {<<>>, <<"t">>}
ChatSources == {<<>>, <<Source(Hit(1))>>}

\* The chat id is chosen and the history loaded.
QueryOpen ==
    /\ turn.pc = "idle"
    /\ chat.asked < MaxQueries
    /\ \E supplied \in Suppliable, model_type \in ModelTypes,
          mongoFails \in BOOLEAN, jsonFails \in BOOLEAN :
         /\ turn' = [IdleTurn EXCEPT
                       !.pc = "answer",
                       !.supplied = supplied,
                       !.chat_id = ChatId(supplied),
                       !.model_type = model_type,
                       !.user_query = UserQuery(chat.asked + 1),
                       !.chat_history =
                           load_chat_history(ChatId(supplied), mongoFails, jsonFails),
                       !.before = chat,
                       !.json_failed = jsonFails]
         /\ chat' = [chat EXCEPT
                       !.asked = @ + 1,
                       !.generated = IF supplied = NoChat THEN @ + 1 ELSE @]
    /\ UNCHANGED <<storeVars, ragVars, entryVars, stream, chunker, unitVars>>

\* embed_query, the search, generate_response_with_sources and
\* _extract_sources; an exception of any of them is logged and raised again.
QueryAnswer ==
    /\ turn.pc = "answer"
    /\ \/ \E response \in ChatResponses, thinking \in Thinkings(turn.model_type),
             sources \in ChatSources :
            turn' = [turn EXCEPT !.pc = "save", !.response = response,
                                 !.thinking = thinking, !.sources = sources]
       \/ turn' = [turn EXCEPT !.pc = "raised"]
    /\ UNCHANGED <<storeVars, ragVars, entryVars, chat, stream, chunker, unitVars>>

\* The two messages are appended to the loaded history, which is saved:
\* to MongoDB, or else the JSON file is opened for writing.  The value
\* save_chat_history returns is not looked at.
QuerySave ==
    /\ turn.pc = "save"
    /\ \E mongoFails \in BOOLEAN, openFails \in BOOLEAN :
         LET messages == turn.chat_history
                           \o <<UserMessage(turn.user_query),
                                AssistantMessage(turn.response, turn.thinking,
                                                 turn.sources)>>
         IN  /\ chat' = save_chat_history(
                            ChatData(turn.chat_id, messages, turn.model_type),
                            mongoFails, openFails)
             /\ turn' = [turn EXCEPT
                           !.pc = IF SavedToMongo(mongoFails) \/ openFails
                                  THEN "returned" ELSE "json_write",
                           !.chat_history = messages]
    /\ UNCHANGED <<storeVars, ragVars, entryVars, stream, chunker, unitVars>>

\* json.dump writes the history to the opened file, or raises.
QueryWriteJson ==
    /\ turn.pc = "json_write"
    /\ \E writeFails \in BOOLEAN :
         chat' = _save_to_json(
                     ChatData(turn.chat_id, turn.chat_history, turn.model_type),
                     writeFails)
    /\ turn' = [turn EXCEPT !.pc = "returned"]
    /\ UNCHANGED <<storeVars, ragVars, entryVars, stream, chunker, unitVars>>

\* query returns (response, thinking, chat_id, sources) or raises.
QueryDone ==
    /\ turn.pc \in {"returned", "raised"}
    /\ turn' = IdleTurn
    /\ UNCHANGED <<storeVars, ragVars, entryVars, chat, stream, chunker, unitVars>>

\* ------------------------------------------------ RAGService.query_stream
\* The methods class GeminiLLM defines.
GeminiLLMMethods ==
    {"__init__", "generate_response", "generate_response_with_sources",
     "_build_prompt", "_build_prompt_with_sources", "_extract_source_indices",
     "_remove_sources_line", "generate_response_stream"}

\* One "data: {...}" line of the stream, by the keys of its JSON object.
Event(type, chat_id, sources, error) ==
    [type |-> type, chat_id |-> chat_id, sources |-> sources, error |-> error]

\* The generators that may be open at once: StreamingResponse advances each
\* on a worker thread, whatever the event loop and the other generators do.
Streams == {"s1", "s2"}

IdleStream ==
    [pc |-> "idle", chat_id |-> NoChat, model_type |-> None,
     chat_history |-> <<>>, events |-> <<>>, saved |-> FALSE]

\* Mutant: the handler logs the exception and yields nothing.
StreamExcept_silent(events, e) == events

\* "except Exception as e": one event of type 'error' with str(e).
StreamExcept(events, e) == Append(events, Event("error", NoChat, <<>>, e))

\* The generator up to the branch on model_type: the chat id is chosen and
\* the history loaded; for a model other than gemini one object with the key
\* "error" and no key "type" is yielded, and the generator returns.
StreamOpen(s) ==
    /\ stream[s].pc = "idle"
    /\ chat.asked < MaxQueries
    /\ \E supplied \in Suppliable, model_type \in ModelTypes,
          mongoFails \in BOOLEAN, jsonFails \in BOOLEAN :
         /\ stream' = [stream EXCEPT ![s] = [IdleStream EXCEPT
                         !.pc = IF model_type = "gemini" THEN "retrieve" ELSE "done",
                         !.chat_id = ChatId(supplied),
                         !.model_type = model_type,
                         !.chat_history =
                             load_chat_history(ChatId(supplied), mongoFails, jsonFails),
                         !.events =
                             IF model_type = "gemini" THEN <<>>
                             ELSE <<Event(None, NoChat, <<>>, "unsupported")>>]]
         /\ chat' = [chat EXCEPT
                       !.asked = @ + 1,
                       !.generated = IF supplied = NoChat THEN @ + 1 ELSE @]
    /\ UNCHANGED <<storeVars, ragVars, entryVars, turn, chunker, unitVars>>

\* embed_query and search_cloud, then the 'start' event with the chat id; an
\* exception of either goes to the handler.
StreamRetrieve(s) ==
    /\ stream[s].pc = "retrieve"
    /\ \E raises \in BOOLEAN :
         stream' = [stream EXCEPT ![s] =
                      IF raises
                      THEN [@ EXCEPT !.pc = "done",
                                     !.events = StreamExcept(@, "retrieval")]
                      ELSE [@ EXCEPT !.pc = "generate",
                                     !.events = Append(@, Event("start", stream[s].chat_id,
                                                                <<>>, None))]]
    /\ UNCHANGED <<storeVars, ragVars, entryVars, chat, turn, chunker, unitVars>>

\* "for chunk in self.gemini_llm.generate_response_with_sources_stream(...)":
\* GeminiLLM has no such attribute, the lookup raises AttributeError and the
\* handler yields the error event; the loop body, the save and the 'end'
\* event are never reached.
StreamGenerate(s) ==
    /\ stream[s].pc = "generate"
    /\ ~Defines(GeminiLLMMethods, "generate_response_with_sources_stream")
    /\ stream' = [stream EXCEPT ![s] =
                    [@ EXCEPT !.pc = "done",
                              !.events = StreamExcept(@, "AttributeError")]]
    /\ UNCHANGED <<storeVars, ragVars, entryVars, chat, turn, chunker, unitVars>>

\* The generator is exhausted and the response closed.
StreamDone(s) ==
    /\ stream[s].pc = "done"
    /\ stream' = [stream EXCEPT ![s] = IdleStream]
    /\ UNCHANGED <<storeVars, ragVars, entryVars, chat, turn, chunker, unitVars>>

\* ============================================ DocumentProcessor._chunk_text
\* The longest text chunked and the largest chunk_size tried.
MaxText == 5
MaxChunkSize == 3

\* The characters of a text: a letter, a space and a line break.
Chars == {"A", " ", "\n"}

\* separators=["\n\n", "\n", " ", ""] of the RecursiveCharacterTextSplitter
\* that __init__ builds (use_semantic_chunking is False by default).
Separators == << <<"\n", "\n">>, <<"\n">>, <<" ">>, <<>> >>

IdleChunker ==
    [pc |-> "idle", text |-> <<>>, chunk_size |-> 0, chunk_overlap |-> 0,
     chunks |-> <<>>]

\* _join_docs before the strip: "".join(docs)
RECURSIVE JoinDocs(_)
JoinDocs(docs) == IF docs = <<>> THEN <<>> ELSE Head(docs) \o JoinDocs(Tail(docs))

\* The sum of the lengths of the pieces of a window.
RECURSIVE Total(_)
Total(docs) == IF docs = <<>> THEN 0 ELSE Len(Head(docs)) + Total(Tail(docs))

\* The split of a text at a separator that is kept at the start of the piece
\* it precedes; the empty separator splits into characters; empty pieces are
\* dropped.
RECURSIVE SplitAt(_, _, _, _, _)
SplitAt(text, sep, i, cur, out) ==
    IF i > Len(text) THEN Append(out, cur)
    ELSE IF i + Len(sep) - 1 <= Len(text) /\ SubSeq(text, i, i + Len(sep) - 1) = sep
    THEN SplitAt(text, sep, i + Len(sep), sep, Append(out, cur))
    ELSE SplitAt(text, sep, i + 1, Append(cur, text[i]), out)
SplitKeeping(text, sep) ==
    IF sep = <<>> THEN [i \in 1..Len(text) |-> <<text[i]>>]
    ELSE SelectSeq(SplitAt(text, sep, 1, <<>>, <<>>), LAMBDA piece : piece # <<>>)

\* re.search of a separator in a text.
Found(text, sep) ==
    \E i \in 1..(Len(text) - Len(sep) + 1) : SubSeq(text, i, i + Len(sep) - 1) = sep

\* The window after a chunk was emitted: pieces are dropped from its front
\* while it is longer than the overlap, or while the next piece does not fit.
RECURSIVE Shrink(_, _, _, _)
Shrink(current_doc, len, chunk_size, chunk_overlap) ==
    IF Total(current_doc) > chunk_overlap
         \/ (Total(current_doc) + len > chunk_size /\ Total(current_doc) > 0)
    THEN Shrink(Tail(current_doc), len, chunk_size, chunk_overlap)
    ELSE current_doc

\* The stripped join of a window, when it is not empty.
Emit(docs, current_doc) ==
    IF Strip(JoinDocs(current_doc)) = <<>> THEN docs
    ELSE Append(docs, Strip(JoinDocs(current_doc)))

\* _merge_splits: the pieces are collected into a window that is emitted as
\* a chunk when the next piece would take it over chunk_size.
RECURSIVE MergeSplits(_, _, _, _, _)
MergeSplits(splits, current_doc, docs, chunk_size, chunk_overlap) ==
    IF splits = <<>> THEN Emit(docs, current_doc)
    ELSE LET d == Head(splits)
             full == Total(current_doc) + Len(d) > chunk_size /\ current_doc # <<>>
         IN  MergeSplits(Tail(splits),
                         Append(IF full
                                THEN Shrink(current_doc, Len(d), chunk_size, chunk_overlap)
                                ELSE current_doc, d),
                         IF full THEN Emit(docs, current_doc) ELSE docs,
                         chunk_size, chunk_overlap)

\* Mutant: every piece is taken for one that fits.
IsGood_always(piece, chunk_size) == TRUE

\* "if self._length_function(s) < self._chunk_size"
IsGood(piece, chunk_size) == Len(piece) < chunk_size

\* The first separator that is empty or occurs in the text.
RECURSIVE Pick(_, _)
Pick(text, k) ==
    IF Separators[k] = <<>> \/ Found(text, Separators[k]) THEN k ELSE Pick(text, k + 1)

\* _split_text: the text is split at the first separator found; the pieces
\* that fit are merged, a piece that does not is split again with the
\* separators that remain.
RECURSIVE SplitText(_, _, _, _)
RECURSIVE Pieces(_, _, _, _, _, _)
Pieces(splits, good, final, k, chunk_size, chunk_overlap) ==
    LET flushed == IF good = <<>> THEN final
                   ELSE final \o MergeSplits(good, <<>>, <<>>, chunk_size, chunk_overlap)
    IN  IF splits = <<>> THEN flushed
        ELSE IF IsGood(Head(splits), chunk_size)
        THEN Pieces(Tail(splits), Append(good, Head(splits)), final, k,
                    chunk_size, chunk_overlap)
        ELSE Pieces(Tail(splits), <<>>,
                    IF k = Len(Separators) THEN Append(flushed, Head(splits))
                    ELSE flushed \o SplitText(Head(splits), k + 1, chunk_size,
                                              chunk_overlap),
                    k, chunk_size, chunk_overlap)
SplitText(text, from, chunk_size, chunk_overlap) ==
    LET k == Pick(text, from)
    IN  Pieces(SplitKeeping(text, Separators[k]), <<>>, <<>>, k, chunk_size,
               chunk_overlap)

\* _chunk_text: self.text_splitter.split_text(text)
ChunkText ==
    /\ chunker.pc = "ready"
    /\ chunker' = [chunker EXCEPT
                     !.pc = "done",
                     !.chunks = SplitText(chunker.text, 1, chunker.chunk_size,
                                          chunker.chunk_overlap)]
    /\ UNCHANGED <<storeVars, ragVars, entryVars, chatVars, unitVars>>

\* =========================================== GeminiEmbedding.embed_query
\* Number of embed_query calls on the provider in a behaviour.
MaxQueryCalls == 4

\* "if self.api_call_count % 50 == 0: time.sleep(10)"
CallsPerCooldown == 50
QueryCooldownSeconds == 10

\* The threads that call embed_query on the provider of RAGService: the
\* event loop (query) and a worker thread that advances a query_stream
\* generator.
Threads == {"loop", "worker"}

IdleCaller == [pc |-> "idle", read |-> 0, n |-> 0, waited |-> 0, key |-> 0]

\* The calls the provider has completed, one after the other, before the
\* behaviour begins: none, or two less than a multiple of 50.
PriorCalls == {0, CallsPerCooldown - 2}

\* The provider with no call in progress: after __init__ (api_call_count = 0),
\* or after prior calls.  begun counts the calls begun since __init__, calls
\* those of the behaviour.
EmbedQueryAfter(has_second_key, prior) ==
    [has_second_key |-> has_second_key, api_call_count |-> prior,
     begun |-> prior, calls |-> 0,
     callers |-> [t \in Threads |-> IdleCaller]]

IdleEmbedQuery(has_second_key) == EmbedQueryAfter(has_second_key, 0)

NeedsCooldown(api_call_count) == api_call_count % CallsPerCooldown = 0

\* "self.api_call_count += 1" takes no lock: the attribute is loaded, one is
\* added, and the sum is stored, and the test of the next line loads the
\* attribute again.  Another thread may run between any two of these (where
\* the interpreter lets threads switch depends on its version and build), so
\* each is a step.  The call begins: the attribute is loaded.
EmbedQueryRead(t) ==
    /\ embedq.callers[t].pc = "idle"
    /\ embedq.calls < MaxQueryCalls
    /\ embedq' = [embedq EXCEPT
                    !.begun = @ + 1,
                    !.calls = @ + 1,
                    !.callers[t] = [IdleCaller EXCEPT
                                      !.pc = "store",
                                      !.read = embedq.api_call_count]]
    /\ UNCHANGED <<storeVars, ragVars, entryVars, chatVars, chunker, cleaner, server>>

\* The sum is stored: n is the value this call raised the counter to.
EmbedQueryStore(t) ==
    /\ embedq.callers[t].pc = "store"
    /\ embedq' = [embedq EXCEPT
                    !.api_call_count = embedq.callers[t].read + 1,
                    !.callers[t].pc = "test",
                    !.callers[t].n = embedq.callers[t].read + 1]
    /\ UNCHANGED <<storeVars, ragVars, entryVars, chatVars, chunker, cleaner, server>>

\* "if self.api_call_count % 50 == 0": the counter as it stands now.
EmbedQueryTest(t) ==
    /\ embedq.callers[t].pc = "test"
    /\ embedq' = [embedq EXCEPT
                    !.callers[t].pc = IF NeedsCooldown(embedq.api_call_count)
                                      THEN "sleep" ELSE "send"]
    /\ UNCHANGED <<storeVars, ragVars, entryVars, chatVars, chunker, cleaner, server>>

\* time.sleep(10): the other thread runs meanwhile.
EmbedQuerySleep(t) ==
    /\ embedq.callers[t].pc = "sleep"
    /\ embedq' = [embedq EXCEPT !.callers[t].pc = "send",
                                !.callers[t].waited = @ + QueryCooldownSeconds]
    /\ UNCHANGED <<storeVars, ragVars, entryVars, chatVars, chunker, cleaner, server>>

\* The key is chosen by the counter as it stands now, and the request is
\* sent; it returns the embedding or raises.
EmbedQuerySend(t) ==
    /\ embedq.callers[t].pc = "send"
    /\ \E ok \in BOOLEAN :
         embedq' = [embedq EXCEPT
                      !.callers[t].pc = IF ok THEN "returned" ELSE "raised",
                      !.callers[t].key =
                          IF embedq.has_second_key /\ embedq.api_call_count % 2 = 0
                          THEN 2 ELSE 1]
    /\ UNCHANGED <<storeVars, ragVars, entryVars, chatVars, chunker, cleaner, server>>

EmbedQueryReturn(t) ==
    /\ embedq.callers[t].pc \in {"returned", "raised"}
    /\ embedq' = [embedq EXCEPT !.callers[t] = IdleCaller]
    /\ UNCHANGED <<storeVars, ragVars, entryVars, chatVars, chunker, cleaner, server>>

\* ============================================ DocumentProcessor.preprocess_text
\* Length of the raw texts, in symbols.
MaxRaw == 5

\* A text is a sequence of symbols: a newline, a space, a digit, a dash, the
\* word "Page" in any mix of upper and lower case (the pattern that names it
\* is compiled with re.IGNORECASE), and "a" for any other character.
RawChars == {"\n", " ", "7", "-", "Page", "a"}

IdleCleaner == [pc |-> "idle", text |-> <<>>, out |-> <<>>]

\* The atoms of the patterns: one character of a class, and a class under
\* the greedy quantifiers * and +.
One(chars) == [chars |-> chars, least |-> 1, many |-> FALSE]
Star(chars) == [chars |-> chars, least |-> 0, many |-> TRUE]
Plus(chars) == [chars |-> chars, least |-> 1, many |-> TRUE]

\* Where the match of `pattern` that begins at s[pos] ends (the index after
\* its last character), 0 when there is none.  A quantified atom takes as
\* many characters as it can and gives them back one at a time while the
\* rest of the pattern does not match, as the backtracking matcher of re does.
RECURSIVE MatchEnd(_, _, _)
RECURSIVE GiveBack(_, _, _, _)
MatchEnd(pattern, s, pos) ==
    IF pattern = <<>> THEN pos
    ELSE LET atom == Head(pattern)
             run == Run(SubSeq(s, pos, Len(s)), atom.chars)
         IN  GiveBack(pattern, s, pos, IF atom.many THEN run ELSE Min(run, 1))

GiveBack(pattern, s, pos, n) ==
    IF n < Head(pattern).least THEN 0
    ELSE LET end == MatchEnd(Tail(pattern), s, pos + n)
         IN  IF end # 0 THEN end ELSE GiveBack(pattern, s, pos, n - 1)

\* re.sub(pattern, repl, s): the matches are found from left to right, each
\* search beginning where the match before it ended.
RECURSIVE SubFrom(_, _, _, _)
SubFrom(pattern, repl, s, pos) ==
    IF pos > Len(s) THEN <<>>
    ELSE LET end == MatchEnd(pattern, s, pos)
         IN  IF end # 0 THEN repl \o SubFrom(pattern, repl, s, end)
             ELSE <<s[pos]>> \o SubFrom(pattern, repl, s, pos + 1)

Sub(pattern, repl, s) == SubFrom(pattern, repl, s, 1)

\* r"\n\s*Page\s+\d+\s*\n"
PageNumber ==
    <<One({"\n"}), Star(Whitespace), One({"Page"}), Plus(Whitespace),
      Plus(Digits), Star(Whitespace), One({"\n"})>>

\* r"\n\s*\d+\s*\n"
StandaloneNumber ==
    <<One({"\n"}), Star(Whitespace), Plus(Digits), Star(Whitespace), One({"\n"})>>

\* r"\n\s*-\s*\d+\s*-\s*\n"
DashedNumber ==
    <<One({"\n"}), Star(Whitespace), One({"-"}), Star(Whitespace), Plus(Digits),
      Star(Whitespace), One({"-"}), Star(Whitespace), One({"\n"})>>

\* Mutant: r"\n{4,}"
MultipleNewlines_four == <<One({"\n"}), One({"\n"}), One({"\n"}), Plus({"\n"})>>

\* r"\n{3,}"
MultipleNewlines == <<One({"\n"}), One({"\n"}), Plus({"\n"})>>

\* r" {2,}"
MultipleSpaces == <<One({" "}), Plus({" "})>>

\* preprocess_text(text): the five substitutions in their order, then strip().
preprocess_text(text) ==
    LET paged == Sub(PageNumber, <<"\n">>, text)
        numbered == Sub(StandaloneNumber, <<"\n">>, paged)
        dashed == Sub(DashedNumber, <<"\n">>, numbered)
        spaced == Sub(MultipleNewlines, <<"\n", "\n">>, dashed)
        single == Sub(MultipleSpaces, <<" ">>, spaced)
    IN  Strip(single)

\* A call of preprocess_text on the text at hand.
PreprocessText ==
    /\ cleaner.pc = "ready"
    /\ cleaner' = [cleaner EXCEPT !.pc = "done", !.out = preprocess_text(cleaner.text)]
    /\ UNCHANGED <<storeVars, ragVars, entryVars, chatVars, chunker, embedq, server>>

\* ================================================================ API server
\* Batches of chunks in an uploaded document.
MaxUploadBatches == 3

\* The requests in flight; the server is one process with one event loop
\* (uvicorn.run(app, ...)).
Requests == {"q1", "q2"}

\* submitted and began are the times on the clock; mark is the time spent in
\* cooldowns of uploads when the request was submitted, and delayed that
\* spent between its submission and the beginning of its handler.
NoRequest == [pc |-> "none", kind |-> "none", model_type |-> "None", n |-> 0,
              batch |-> 0, embedded |-> FALSE, submitted |-> 0, began |-> 0,
              mark |-> 0, delayed |-> 0]

\* The queries the server has answered with the Gemini provider of
\* RAGService before the behaviour begins: none, or one less than a multiple
\* of 50.
ServedQueries == {0, CallsPerCooldown - 1}

\* The server after start-up: no request, nothing running on the loop.
\* `clock` counts the seconds spent in cooldowns, `cooled` those of them
\* spent in the cooldowns of uploads; api_call_count is the counter of
\* rag_service.gemini_embedding.
IdleServer ==
    [clock |-> 0, cooled |-> 0, running |-> "none", has_second_key |-> FALSE,
     api_call_count |-> 0,
     requests |-> [q \in Requests |-> NoRequest]]

\* A client sends POST /upload with a document of n full batches of chunks, or
\* POST /query with a model_type;
\* the connection is accepted by the operating system whatever the loop does.
Submit(q) ==
    /\ server.requests[q].pc = "none"
    /\ \E kind \in {"upload", "query"}, n \in 1..MaxUploadBatches,
          model_type \in ModelTypes :
          server' = [server EXCEPT
                       !.requests[q] = [NoRequest EXCEPT
                                          !.pc = "pending", !.kind = kind,
                                          !.n = IF kind = "upload" THEN n ELSE 0,
                                          !.model_type =
                                              IF kind = "query" THEN model_type
                                              ELSE "None",
                                          !.submitted = server.clock,
                                          !.mark = server.cooled]]
    /\ UNCHANGED <<storeVars, ragVars, entryVars, chatVars, chunker, embedq, cleaner>>

\* The loop is free and begins the handler of a pending request.  Both
\* handlers are coroutines ("async def").  query calls rag_service.query,
\* which is not awaited or handed to a thread: the loop runs nothing else
\* until the call returns.  upload_document first awaits the file
\* (aiofiles.open, file.read, f.write), and the loop is free meanwhile.
Dispatch(q) ==
    /\ server.running = "none"
    /\ server.requests[q].pc = "pending"
    /\ server' = IF server.requests[q].kind = "upload"
                 THEN [server EXCEPT !.requests[q].pc = "saving",
                                     !.requests[q].began = server.clock,
                                     !.requests[q].delayed =
                                         server.cooled - server.requests[q].mark]
                 ELSE [server EXCEPT !.running = q,
                                     !.requests[q].pc = "running",
                                     !.requests[q].began = server.clock,
                                     !.requests[q].delayed =
                                         server.cooled - server.requests[q].mark]
    /\ UNCHANGED <<storeVars, ragVars, entryVars, chatVars, chunker, embedq, cleaner>>

\* The file is saved and the upload handler calls ingest_document, which is
\* not awaited or handed to a thread: the loop runs nothing else until the
\* call returns.
UploadCall(q) ==
    /\ server.running = "none"
    /\ server.requests[q].pc = "saving"
    /\ server' = [server EXCEPT !.running = q, !.requests[q].pc = "running"]
    /\ UNCHANGED <<storeVars, ragVars, entryVars, chatVars, chunker, embedq, cleaner>>

\* ingest_document -> embed_documents sends the next batch, and sleeps when
\* the cooldown is due after it.
UploadBatch(q) ==
    /\ server.running = q
    /\ server.requests[q].pc = "running"
    /\ server.requests[q].kind = "upload"
    /\ server.requests[q].batch < server.requests[q].n
    /\ LET i == server.requests[q].batch + 1
       IN  server' = [server EXCEPT
                        !.requests[q].batch = i,
                        !.requests[q].pc =
                            IF Cooldown(server.has_second_key, (i - 1) * BATCH_SIZE,
                                        server.requests[q].n * BATCH_SIZE)
                            THEN "cooldown" ELSE "running"]
    /\ UNCHANGED <<storeVars, ragVars, entryVars, chatVars, chunker, embedq, cleaner>>

\* time.sleep(wait_time) returns after the cooldown.
UploadWake(q) ==
    /\ server.running = q
    /\ server.requests[q].pc = "cooldown"
    /\ server.requests[q].kind = "upload"
    /\ server' = [server EXCEPT !.clock = @ + CooldownSeconds,
                                !.cooled = @ + CooldownSeconds,
                                !.requests[q].pc = "running"]
    /\ UNCHANGED <<storeVars, ragVars, entryVars, chatVars, chunker, embedq, cleaner>>

\* rag_service.query makes the query vector: with model_type "gemini",
\* gemini_embedding.embed_query counts the call and sleeps when the counter
\* has reached a multiple of 50; otherwise local_embedding.embed_query,
\* which has no counter.  All of it runs on the loop.
QueryEmbed(q) ==
    /\ server.running = q
    /\ server.requests[q].pc = "running"
    /\ server.requests[q].kind = "query"
    /\ ~server.requests[q].embedded
    /\ server' =
          IF server.requests[q].model_type = "gemini"
          THEN [server EXCEPT
                  !.api_call_count = @ + 1,
                  !.requests[q].embedded = TRUE,
                  !.requests[q].pc =
                      IF NeedsCooldown(server.api_call_count + 1)
                      THEN "cooldown" ELSE "running"]
          ELSE [server EXCEPT !.requests[q].embedded = TRUE]
    /\ UNCHANGED <<storeVars, ragVars, entryVars, chatVars, chunker, embedq, cleaner>>

\* time.sleep(10) of embed_query returns.
QueryWake(q) ==
    /\ server.running = q
    /\ server.requests[q].pc = "cooldown"
    /\ server.requests[q].kind = "query"
    /\ server' = [server EXCEPT !.clock = @ + QueryCooldownSeconds,
                                !.requests[q].pc = "running"]
    /\ UNCHANGED <<storeVars, ragVars, entryVars, chatVars, chunker, embedq, cleaner>>

\* The handler returns its response and the loop is free again.
Respond(q) ==
    /\ server.running = q
    /\ server.requests[q].pc = "running"
    /\ server.requests[q].batch = server.requests[q].n
    /\ server.requests[q].kind = "query" => server.requests[q].embedded
    /\ server' = [server EXCEPT !.running = "none", !.requests[q].pc = "done"]
    /\ UNCHANGED <<storeVars, ragVars, entryVars, chatVars, chunker, embedq, cleaner>>

\* Nothing is in progress in embed_query, preprocess_text and the server.
UnitIdle ==
    /\ embedq = IdleEmbedQuery(FALSE)
    /\ cleaner = IdleCleaner
    /\ server = IdleServer

\* ---------------------------------------------------------------- system
\* No bulk or website ingestion, no chat, no stream and no chunking.
FrontIdle ==
    /\ uploads = [u \in Handlers |-> NoUpload]
    /\ bulk = IdleBulk
    /\ web = IdleWeb
    /\ chat = NoChats(FALSE)
    /\ turn = IdleTurn
    /\ stream = [s \in Streams |-> IdleStream]
    /\ chunker = IdleChunker
    /\ UnitIdle

\* Both QdrantStorage objects are constructed, each with the flag given.
StoreBuilt(flags) ==
    /\ docker_available = flags
    /\ storage = [s \in Services |-> Constructed(flags[s])]

\* The ingestion side after construction: no files, empty collections, and
\* the docker client of the ingestion service's store either came up or did
\* not (the flag of the query service's store is not read on this side).
Init ==
    /\ fs = {}
    /\ cloudColl = {}
    /\ replicaColl = {}
    /\ dockerColl = {}
    /\ \E up \in BOOLEAN :
          StoreBuilt([s \in Services |-> IF s = "ingestion" THEN up ELSE TRUE])
    /\ RagIdle
    /\ FrontIdle
    /\ runs = [r \in Runs |-> IdleRun]
    /\ last = NoLast
    /\ started = 0
    /\ search = NoSearch

\* The steps of a call of ingest_document, from the fingerprint to the move.
RunStep(r) ==
    \/ Md5Open(r)
    \/ Md5Read(r)
    \/ CheckCloud(r)
    \/ CheckDocker(r)
    \/ MoveDuplicate(r)
    \/ LoadDocument(r)
    \/ GeminiEmbed(r)
    \/ StoreCheckCloud(r)
    \/ CloudUpsert(r)
    \/ LocalEmbed(r)
    \/ StoreCheckDocker(r)
    \/ DockerUpsert(r)
    \/ ReplicaUpsert(r)
    \/ Finish(r)

Next ==
    \/ \E u \in Handlers, name \in Names, d \in Docs : UploadBegin(u, name, d)
    \/ \E u \in Handlers : UploadOpen(u)
    \/ \E u \in Handlers : UploadResume(u)
    \/ \E u \in Handlers : UploadWrite(u)
    \/ \E u \in Handlers : UploadExit(u)
    \/ \E u \in Handlers : UploadClose(u)
    \/ \E u \in Handlers, r \in Runs : UploadIngest(u, r)
    \/ \E r \in Runs, path \in fs : IngestFromFolder(r, path)
    \/ \E r \in Runs : Md5Open(r)
    \/ \E r \in Runs : Md5Read(r)
    \/ \E r \in Runs : CheckCloud(r)
    \/ \E r \in Runs : CheckDocker(r)
    \/ \E r \in Runs : MoveDuplicate(r)
    \/ \E r \in Runs : LoadDocument(r)
    \/ \E r \in Runs : GeminiEmbed(r)
    \/ \E r \in Runs : StoreCheckCloud(r)
    \/ \E r \in Runs : CloudUpsert(r)
    \/ \E r \in Runs : LocalEmbed(r)
    \/ \E r \in Runs : StoreCheckDocker(r)
    \/ \E r \in Runs : DockerUpsert(r)
    \/ \E r \in Runs : ReplicaUpsert(r)
    \/ \E r \in Runs : Finish(r)
    \/ \E r \in Runs : Return(r)

Spec == Init /\ [][Next]_vars

\* The folder holds files when the services come up: a document of one
\* block and one of two.
Leftovers ==
    {File(generate_embeddings_folder, "a", <<>>, 1),
     File(generate_embeddings_folder, "b", <<>>, 2)}

\* Ingestion from the folder together with the searches of the query side.
NextSearch ==
    \/ \E r \in Runs, path \in fs : IngestFromFolder(r, path)
    \/ \E r \in Runs : Md5Open(r)
    \/ \E r \in Runs : Md5Read(r)
    \/ \E r \in Runs : CheckCloud(r)
    \/ \E r \in Runs : CheckDocker(r)
    \/ \E r \in Runs : MoveDuplicate(r)
    \/ \E r \in Runs : LoadDocument(r)
    \/ \E r \in Runs : GeminiEmbed(r)
    \/ \E r \in Runs : StoreCheckCloud(r)
    \/ \E r \in Runs : CloudUpsert(r)
    \/ \E r \in Runs : LocalEmbed(r)
    \/ \E r \in Runs : StoreCheckDocker(r)
    \/ \E r \in Runs : DockerUpsert(r)
    \/ \E r \in Runs : ReplicaUpsert(r)
    \/ \E r \in Runs : Finish(r)
    \/ \E r \in Runs : Return(r)
    \/ SearchDocker
    \/ SearchCloud
    \/ SearchReturn

\* ingest_all_documents on a folder that holds a document of more chunks
\* than one sub-batch of the Gemini provider, and a copy of it under another
\* name; the docker client came up.
InitLong ==
    /\ fs = {File(generate_embeddings_folder, "a", <<>>, LongBlocks),
             File(generate_embeddings_folder, "a", <<1>>, LongBlocks)}
    /\ cloudColl = {}
    /\ replicaColl = {}
    /\ dockerColl = {}
    /\ StoreBuilt([s \in Services |-> TRUE])
    /\ RagIdle
    /\ FrontIdle
    /\ runs = [r \in Runs |-> IdleRun]
    /\ last = NoLast
    /\ started = 0
    /\ search = NoSearch

NextLong ==
    \/ BulkStart
    \/ \E r \in Runs : BulkIngest(r)
    \/ \E r \in Runs : RunStep(r)
    \/ \E r \in Runs : BulkCollect(r)
    \/ BulkReturn

LongSpec == InitLong /\ [][NextLong]_vars

\* Both services constructed, the docker client of each either up or not.
InitSearch ==
    /\ fs = Leftovers
    /\ cloudColl = {}
    /\ replicaColl = {}
    /\ dockerColl = {}
    /\ \E flags \in [Services -> BOOLEAN] : StoreBuilt(flags)
    /\ RagIdle
    /\ FrontIdle
    /\ runs = [r \in Runs |-> IdleRun]
    /\ last = NoLast
    /\ started = 0
    /\ search = NoSearch

SearchSpec == InitSearch /\ [][NextSearch]_vars

\* The same system from before the construction of QdrantStorage: the
\* services exist, and take calls, only when the constructor returned.
InitStore ==
    /\ fs = Leftovers
    /\ cloudColl = {}
    /\ replicaColl = {}
    /\ dockerColl = {}
    /\ docker_available = [s \in Services |-> FALSE]
    /\ storage = [s \in Services |-> Unconstructed]
    /\ RagIdle
    /\ FrontIdle
    /\ runs = [r \in Runs |-> IdleRun]
    /\ last = NoLast
    /\ started = 0
    /\ search = NoSearch

NextStore ==
    \/ \E s \in Services : Construct(s)
    \/ ((\A s \in Services : storage[s].status = "ready") /\ NextSearch)

StoreSpec == InitStore /\ [][NextStore]_vars

\* The query side alone, over the constructed store.
NextQuery ==
    \/ Retrieve
    \/ BuildContext
    \/ Generate
    \/ ExtractSources
    \/ QueryReturn

QuerySpec == Init /\ [][NextQuery]_vars

\* The Gemini embedding provider alone, from before its construction.
InitEmbed ==
    /\ fs = {}
    /\ cloudColl = {}
    /\ replicaColl = {}
    /\ dockerColl = {}
    /\ StoreBuilt([s \in Services |-> TRUE])
    /\ runs = [r \in Runs |-> IdleRun]
    /\ last = NoLast
    /\ started = 0
    /\ search = NoSearch
    /\ query = IdleQuery
    /\ FrontIdle
    /\ gemini = NewGemini
    /\ window = <<>>
    /\ local = [s \in Services |-> IdleLocal(FALSE)]

NextEmbed ==
    \/ GeminiConstruct
    \/ GeminiEmbedDocuments
    \/ GeminiBatch
    \/ GeminiCooldown
    \/ GeminiReturn
    \/ Elapse

EmbedSpec == InitEmbed /\ [][NextEmbed]_vars

\* The two LocalEmbedding objects alone: _test_lmstudio() found LM Studio
\* or not when each was constructed.
InitLocal ==
    /\ fs = {}
    /\ cloudColl = {}
    /\ replicaColl = {}
    /\ dockerColl = {}
    /\ StoreBuilt([s \in Services |-> TRUE])
    /\ runs = [r \in Runs |-> IdleRun]
    /\ last = NoLast
    /\ started = 0
    /\ search = NoSearch
    /\ query = IdleQuery
    /\ FrontIdle
    /\ gemini = IdleGemini(FALSE)
    /\ window = <<>>
    /\ \E lmstudio \in [Services -> BOOLEAN] :
         local = [s \in Services |-> IdleLocal(~lmstudio[s])]

NextLocal ==
    \/ \E s \in Services : LocalCall(s)
    \/ \E s \in Services : LocalEmbedText(s)
    \/ \E s \in Services : LocalReturn(s)

LocalSpec == InitLocal /\ [][NextLocal]_vars

\* Bulk and website ingestion: the folder holds some files when the request
\* arrives: an empty document, a document of one chunk and a copy of it under
\* another name; one more may have a suffix that is not accepted and one may
\* lie in a subdirectory.
Candidates ==
    {File(generate_embeddings_folder, "a", <<>>, 0),
     File(generate_embeddings_folder, "b", <<>>, 1),
     File(generate_embeddings_folder, "b", <<1>>, 1)}
Others ==
    {[File(generate_embeddings_folder, "b", <<>>, 1) EXCEPT !.ext = ".png"],
     File(stored_folder, "c", <<>>, 2)}

InitBulk ==
    /\ \E files \in SUBSET Candidates, others \in {{}, Others} :
         /\ Cardinality(files) <= MaxIngests
         /\ fs = files \cup others
    /\ cloudColl = {}
    /\ replicaColl = {}
    /\ dockerColl = {}
    /\ \E flags \in [Services -> BOOLEAN] : StoreBuilt(flags)
    /\ RagIdle
    /\ FrontIdle
    /\ runs = [r \in Runs |-> IdleRun]
    /\ last = NoLast
    /\ started = 0
    /\ search = NoSearch

NextBulk ==
    \/ BulkStart
    \/ \E r \in Runs : BulkIngest(r)
    \/ \E r \in Runs : Md5Open(r)
    \/ \E r \in Runs : Md5Read(r)
    \/ \E r \in Runs : CheckCloud(r)
    \/ \E r \in Runs : CheckDocker(r)
    \/ \E r \in Runs : MoveDuplicate(r)
    \/ \E r \in Runs : LoadDocument(r)
    \/ \E r \in Runs : GeminiEmbed(r)
    \/ \E r \in Runs : StoreCheckCloud(r)
    \/ \E r \in Runs : CloudUpsert(r)
    \/ \E r \in Runs : LocalEmbed(r)
    \/ \E r \in Runs : StoreCheckDocker(r)
    \/ \E r \in Runs : DockerUpsert(r)
    \/ \E r \in Runs : ReplicaUpsert(r)
    \/ \E r \in Runs : Finish(r)
    \/ \E r \in Runs : BulkCollect(r)
    \/ BulkReturn
    \/ WebIngest
    \/ WebReturn

BulkSpec == InitBulk /\ [][NextBulk]_vars

\* The chat history with the two ways of asking: MongoDB answered the ping
\* at construction or did not.
InitChat ==
    /\ fs = {}
    /\ cloudColl = {}
    /\ replicaColl = {}
    /\ dockerColl = {}
    /\ StoreBuilt([s \in Services |-> TRUE])
    /\ RagIdle
    /\ runs = [r \in Runs |-> IdleRun]
    /\ last = NoLast
    /\ started = 0
    /\ search = NoSearch
    /\ uploads = [u \in Handlers |-> NoUpload]
    /\ bulk = IdleBulk
    /\ web = IdleWeb
    /\ \E mongo_available \in BOOLEAN : chat = NoChats(mongo_available)
    /\ turn = IdleTurn
    /\ stream = [s \in Streams |-> IdleStream]
    /\ chunker = IdleChunker
    /\ UnitIdle

NextChat ==
    \/ QueryOpen
    \/ QueryAnswer
    \/ QuerySave
    \/ QueryWriteJson
    \/ QueryDone
    \/ \E s \in Streams : StreamOpen(s)
    \/ \E s \in Streams : StreamRetrieve(s)
    \/ \E s \in Streams : StreamGenerate(s)
    \/ \E s \in Streams : StreamDone(s)

ChatSpec == InitChat /\ [][NextChat]_vars

\* The chunker alone, on every text of up to MaxText characters, for every
\* chunk_size of at least two characters and every smaller chunk_overlap.
InitChunk ==
    /\ fs = {}
    /\ cloudColl = {}
    /\ replicaColl = {}
    /\ dockerColl = {}
    /\ StoreBuilt([s \in Services |-> TRUE])
    /\ RagIdle
    /\ runs = [r \in Runs |-> IdleRun]
    /\ last = NoLast
    /\ started = 0
    /\ search = NoSearch
    /\ uploads = [u \in Handlers |-> NoUpload]
    /\ bulk = IdleBulk
    /\ web = IdleWeb
    /\ chat = NoChats(FALSE)
    /\ turn = IdleTurn
    /\ stream = [s \in Streams |-> IdleStream]
    /\ UnitIdle
    /\ \E n \in 0..MaxText, chunk_size \in 2..MaxChunkSize :
         \E text \in [1..n -> Chars], chunk_overlap \in 0..(chunk_size - 1) :
            chunker = [IdleChunker EXCEPT !.pc = "ready", !.text = text,
                                          !.chunk_size = chunk_size,
                                          !.chunk_overlap = chunk_overlap]

NextChunk == ChunkText

ChunkSpec == InitChunk /\ [][NextChunk]_vars

\* Everything but embed_query, preprocess_text and the server, at rest.
BackIdle ==
    /\ fs = {}
    /\ cloudColl = {}
    /\ replicaColl = {}
    /\ dockerColl = {}
    /\ StoreBuilt([s \in Services |-> TRUE])
    /\ RagIdle
    /\ runs = [r \in Runs |-> IdleRun]
    /\ last = NoLast
    /\ started = 0
    /\ search = NoSearch
    /\ uploads = [u \in Handlers |-> NoUpload]
    /\ bulk = IdleBulk
    /\ web = IdleWeb
    /\ chat = NoChats(FALSE)
    /\ turn = IdleTurn
    /\ stream = [s \in Streams |-> IdleStream]
    /\ chunker = IdleChunker

\* embed_query alone, called from two threads on a provider that was
\* constructed (on settings that declare the second key) with one key or two.
InitEmbedQuery ==
    /\ BackIdle
    /\ \E key2_set \in BOOLEAN, client2OK \in BOOLEAN, prior \in PriorCalls :
          embedq = EmbedQueryAfter(
                       GeminiInit(SettingsWithSecondKey, key2_set, client2OK).has_second_key,
                       prior)
    /\ cleaner = IdleCleaner
    /\ server = IdleServer

NextEmbedQuery ==
    \/ \E t \in Threads : EmbedQueryRead(t)
    \/ \E t \in Threads : EmbedQueryStore(t)
    \/ \E t \in Threads : EmbedQueryTest(t)
    \/ \E t \in Threads : EmbedQuerySleep(t)
    \/ \E t \in Threads : EmbedQuerySend(t)
    \/ \E t \in Threads : EmbedQueryReturn(t)

EmbedQuerySpec == InitEmbedQuery /\ [][NextEmbedQuery]_vars

\* preprocess_text alone, on every text of up to MaxRaw symbols.
InitPreprocess ==
    /\ BackIdle
    /\ embedq = IdleEmbedQuery(FALSE)
    /\ server = IdleServer
    /\ \E n \in 0..MaxRaw : \E text \in [1..n -> RawChars] :
          cleaner = [IdleCleaner EXCEPT !.pc = "ready", !.text = text]

NextPreprocess == PreprocessText

PreprocessSpec == InitPreprocess /\ [][NextPreprocess]_vars

\* The server with two requests, each an upload or a query; its services
\* were constructed (on settings that declare the second key), the Gemini
\* provider with one key or two.
InitServer ==
    /\ BackIdle
    /\ embedq = IdleEmbedQuery(FALSE)
    /\ cleaner = IdleCleaner
    /\ \E key2_set \in BOOLEAN, client2OK \in BOOLEAN, served \in ServedQueries :
          server = [IdleServer EXCEPT
                      !.has_second_key =
                          GeminiInit(SettingsWithSecondKey, key2_set, client2OK).has_second_key,
                      !.api_call_count = served]

NextServer ==
    \/ \E q \in Requests : Submit(q)
    \/ \E q \in Requests : Dispatch(q)
    \/ \E q \in Requests : UploadCall(q)
    \/ \E q \in Requests : UploadBatch(q)
    \/ \E q \in Requests : UploadWake(q)
    \/ \E q \in Requests : QueryEmbed(q)
    \/ \E q \in Requests : QueryWake(q)
    \/ \E q \in Requests : Respond(q)

ServerSpec == InitServer /\ [][NextServer]_vars

\* Two threads that call ingest_document once each, on two files of the same
\* bytes, so that the calls may overlap; the docker client came up.
InitRace ==
    /\ fs = {File(generate_embeddings_folder, "a", <<>>, 1),
             File(generate_embeddings_folder, "a", <<1>>, 1)}
    /\ cloudColl = {}
    /\ replicaColl = {}
    /\ dockerColl = {}
    /\ StoreBuilt([s \in Services |-> TRUE])
    /\ RagIdle
    /\ FrontIdle
    /\ runs = [r \in Runs |-> IdleRun]
    /\ last = NoLast
    /\ started = 0
    /\ search = NoSearch

\* The steps of one call, its return included.
RaceStep(r) == RunStep(r) \/ Return(r)

NextRace ==
    \/ (started = 0 /\ \E r \in Runs, path \in fs : IngestFromFolder(r, path))
    \/ (started < Cardinality(Runs) /\ \E r \in Runs, path \in fs : BeginOverlapping(r, path))
    \/ \E r \in Runs : Md5Open(r)
    \/ \E r \in Runs : Md5Read(r)
    \/ \E r \in Runs : CheckCloud(r)
    \/ \E r \in Runs : CheckDocker(r)
    \/ \E r \in Runs : MoveDuplicate(r)
    \/ \E r \in Runs : LoadDocument(r)
    \/ \E r \in Runs : GeminiEmbed(r)
    \/ \E r \in Runs : StoreCheckCloud(r)
    \/ \E r \in Runs : CloudUpsert(r)
    \/ \E r \in Runs : LocalEmbed(r)
    \/ \E r \in Runs : StoreCheckDocker(r)
    \/ \E r \in Runs : DockerUpsert(r)
    \/ \E r \in Runs : ReplicaUpsert(r)
    \/ \E r \in Runs : Finish(r)
    \/ \E r \in Runs : Return(r)

RaceSpec == InitRace /\ [][NextRace]_vars

\* Uploads alone: every document is ingested as it is uploaded, and nothing
\* is searched.
NextUpload ==
    \/ \E u \in Handlers, name \in Names, d \in Docs : UploadBegin(u, name, d)
    \/ \E u \in Handlers : UploadOpen(u)
    \/ \E u \in Handlers : UploadResume(u)
    \/ \E u \in Handlers : UploadWrite(u)
    \/ \E u \in Handlers : UploadExit(u)
    \/ \E u \in Handlers : UploadClose(u)
    \/ \E u \in Handlers, r \in Runs : UploadIngest(u, r)
    \/ \E r \in Runs : Md5Open(r)
    \/ \E r \in Runs : Md5Read(r)
    \/ \E r \in Runs : CheckCloud(r)
    \/ \E r \in Runs : CheckDocker(r)
    \/ \E r \in Runs : MoveDuplicate(r)
    \/ \E r \in Runs : LoadDocument(r)
    \/ \E r \in Runs : GeminiEmbed(r)
    \/ \E r \in Runs : StoreCheckCloud(r)
    \/ \E r \in Runs : CloudUpsert(r)
    \/ \E r \in Runs : LocalEmbed(r)
    \/ \E r \in Runs : StoreCheckDocker(r)
    \/ \E r \in Runs : DockerUpsert(r)
    \/ \E r \in Runs : ReplicaUpsert(r)
    \/ \E r \in Runs : Finish(r)
    \/ \E r \in Runs : Return(r)

UploadSpec == Init /\ [][NextUpload]_vars

\* ============================================================== claims
Committed == {"both", "cloud_only", "docker_only"}
Duplicate == {"duplicate_both", "duplicate_cloud", "duplicate_docker"}
EmbedEvents == {"embed_gemini", "embed_local"}
WriteEvents == {"upsert_cloud", "upsert_docker", "upsert_replica"}

InLog(r, events) == \E i \in DOMAIN runs[r].log : runs[r].log[i] \in events
Done(r) == runs[r].pc = "done"

\* A run past its pre-check that follows, with nothing in between, a
\* committed run on the same bytes whose fingerprint was absent from every
\* collection when it began.
Reingest(r) ==
    /\ runs[r].pc \notin {"idle", "md5", "md5_read", "check", "check_docker", "duplicate"}
    /\ last.kind \in Committed
    /\ last.fresh
    /\ runs[r].md5 = last.md5

\* C1: an ingest committed for a fingerprint that was absent, followed
\* immediately by an ingest of the same bytes, gives a duplicate rejection,
\* no write, and the point counts the first ingest left.
C1_IdempotentIngestion ==
    \A r \in Runs :
        Reingest(r) =>
            /\ runs[r].result.kind \in Duplicate
            /\ ~InLog(r, WriteEvents)
            /\ Counts = runs[r].start

\* C2: in every run the fingerprint and both existence checks come before
\* any loading or embedding request, and a run that ends in a duplicate
\* rejection has made no embedding request and no write.
C2_CheapRejectsFirst ==
    \A r \in Runs :
        LET log == runs[r].log
        IN  /\ \A i \in DOMAIN log :
                 log[i] \in {"load"} \cup EmbedEvents \cup WriteEvents =>
                     /\ i > 3
                     /\ SubSeq(log, 1, 3) = <<"md5", "exists_cloud", "exists_docker">>
            /\ (Done(r) /\ runs[r].result.kind \in Duplicate) =>
                   ~InLog(r, {"load"} \cup EmbedEvents \cup WriteEvents)

C2_Witness ==
    \E r \in Runs :
        /\ Done(r)
        /\ runs[r].result.kind = "both"
        /\ InLog(r, {"embed_gemini"}) /\ InLog(r, {"embed_local"})

\* The outcome and folder the spec gives for the two booleans.
OutcomeTable(c, d) ==
    CASE c /\ d   -> [kind |-> "both", folder |-> stored_folder]
      [] c /\ ~d  -> [kind |-> "cloud_only", folder |-> stored_cloud_only_folder]
      [] ~c /\ d  -> [kind |-> "docker_only", folder |-> stored_docker_only_folder]
      [] ~c /\ ~d -> [kind |-> "failed", folder |-> generate_embeddings_folder]

\* Run r made both tier attempts and returned.
Attempted(r) == Done(r) /\ InLog(r, {"embed_local"})

\* The file of run r, as _move_file left it in the folder.
FileIn(r, folder) ==
    \E p \in fs : p.folder = folder /\ p.name = runs[r].file.name

\* C3: outcome, destination folder and success flag of a run that made the
\* tier attempts are determined by (cloud_success, docker_success) alone.
C3_OutcomePureFunction ==
    \A r \in Runs :
        Attempted(r) =>
            LET row == OutcomeTable(runs[r].cloud_success, runs[r].docker_success)
            IN  /\ runs[r].result.kind = row.kind
                /\ runs[r].dest = row.folder
                /\ runs[r].result.success =
                       (runs[r].cloud_success \/ runs[r].docker_success)
                /\ runs[r].moved => FileIn(r, row.folder)

C3_Witness ==
    \E r \in Runs :
        /\ Attempted(r)
        /\ runs[r].cloud_success /\ ~runs[r].docker_success
        /\ runs[r].moved
        /\ FileIn(r, stored_cloud_only_folder)

\* C4: when both tier attempts fail the run returns the failed outcome and
\* the source file is still at the path it was given.
C4_FailedStaysInPlace ==
    \A r \in Runs :
        (Attempted(r) /\ ~runs[r].cloud_success /\ ~runs[r].docker_success) =>
            /\ runs[r].result.kind = "failed"
            /\ OnDisk(fs, runs[r].file) # {}

\* The text of the failure behind a tier attempt that did not succeed: the
\* exception of the embedding, or the one the store logged.
Cause(error, logged) == IF error # NoErr THEN error ELSE logged

Contains(parts, e) == \E i \in DOMAIN parts : parts[i].text = e

\* C5: when both attempts fail the reason contains the error text of the
\* cloud attempt and that of the docker attempt.
C5_BothErrorsReported ==
    \A r \in Runs :
        (Attempted(r) /\ runs[r].result.kind = "failed") =>
            LET c == Cause(runs[r].cloud_error, runs[r].cloud_logged)
                d == Cause(runs[r].docker_error, runs[r].docker_logged)
            IN  /\ c # NoErr => Contains(runs[r].result.parts, c)
                /\ d # NoErr => Contains(runs[r].result.parts, d)

\* C6: every run that reached the store step made both attempts, whatever
\* the first did: past the cloud attempt the docker attempt is made, and a
\* failed docker attempt leaves the cloud attempt's outcome as it was.
C6_IndependentAttempts ==
    \A r \in Runs :
        /\ (runs[r].pc \in {"finish", "done"} /\ InLog(r, {"embed_gemini"})) =>
               InLog(r, {"embed_local"})
        /\ (Done(r) /\ InLog(r, {"upsert_cloud"}) /\ runs[r].cloud_logged = NoErr) =>
               runs[r].cloud_success

C6_Witness ==
    \E r \in Runs :
        /\ Done(r)
        /\ runs[r].cloud_error # NoErr
        /\ InLog(r, {"embed_local"})
        /\ runs[r].docker_success

\* The docker collection holds the fingerprint, on localhost or in its copy
\* on the cloud client.
InDockerCollection(md5) ==
    PointsOf(replicaColl, md5) # {} \/ PointsOf(dockerColl, md5) # {}

\* The folder that records where a fingerprint is stored.
FolderOfPresence(md5) ==
    IF PointsOf(cloudColl, md5) # {} /\ InDockerCollection(md5) THEN stored_folder
    ELSE IF PointsOf(cloudColl, md5) # {} THEN stored_cloud_only_folder
    ELSE stored_docker_only_folder

\* C7: a run rejected by the pre-check returns a duplicate rejection and
\* routes the file by where the fingerprint is stored: in both collections
\* -> stored folder, in the cloud collection only -> cloud-only folder, in
\* the docker collection only -> docker-only folder.
C7_DuplicateRouting ==
    \A r \in Runs :
        (runs[r].pc \notin {"idle", "md5", "md5_read", "check", "check_docker", "duplicate"}
              /\ (runs[r].cloud_exists \/ runs[r].docker_exists)) =>
            /\ Done(r)
            /\ ~runs[r].result.success
            /\ runs[r].result.kind \in Duplicate
            /\ runs[r].dest = FolderOfPresence(runs[r].md5)
            /\ runs[r].moved => FileIn(r, runs[r].dest)

\* C8: a document that loads into zero chunks is rejected as empty content
\* with no embedding request, no change of any point count, and the source
\* file left where it was.
C8_ZeroContentRejected ==
    \A r \in Runs :
        (runs[r].loaded = "ok" /\ runs[r].n = 0) =>
            /\ Done(r)
            /\ runs[r].result.kind = "empty"
            /\ ~runs[r].result.success
            /\ ~InLog(r, EmbedEvents \cup WriteEvents \cup {"move"})
            /\ Counts = runs[r].start
            /\ OnDisk(fs, runs[r].file) # {}

C8_Witness ==
    \E r \in Runs :
        /\ Done(r)
        /\ runs[r].loaded = "ok"
        /\ runs[r].n = 0
        /\ runs[r].result.kind = "empty"
        /\ Counts.cloud > 0

\* What C9 says of a call of store_embeddings_docker that did its writes.
FastTierWrite(r) ==
    LET sd == runs[r].sd
        mine == NewPoints(runs[r].call, runs[r].md5, runs[r].n, "local")
    IN  /\ docker_available["ingestion"] => sd.dockerTried
        /\ sd.replicaTried
        /\ sd.ret = (sd.docker_success \/ sd.cloud_success)
        /\ runs[r].docker_error = NoErr
        /\ runs[r].docker_success = sd.ret
        /\ sd.docker_success => mine \subseteq dockerColl
        /\ sd.cloud_success => mine \subseteq replicaColl

\* C9 as stated: every call of store_embeddings_docker tries the docker
\* write (best effort), always also tries the replica write, and returns
\* true exactly when one of the two succeeded.
C9_AlwaysReplicates ==
    \A r \in Runs : runs[r].sd.called => FastTierWrite(r)

\* C9 amended: the same, for every call that does not find the fingerprint
\* already in the replica collection; a call that finds it writes nothing
\* and returns false.
C9_ReplicatesUnlessPresent ==
    \A r \in Runs :
        /\ (runs[r].sd.called /\ ~runs[r].sd.skipped) => FastTierWrite(r)
        /\ (runs[r].sd.called /\ runs[r].sd.skipped) =>
               /\ ~runs[r].sd.ret
               /\ ~runs[r].docker_success
               /\ ~InLog(r, {"upsert_docker", "upsert_replica"})
               /\ PointsOf(replicaColl, runs[r].md5) # {}

C9_Witness ==
    \E r \in Runs :
        /\ runs[r].sd.called
        /\ runs[r].sd.dockerTried /\ ~runs[r].sd.docker_success
        /\ runs[r].sd.replicaTried /\ runs[r].sd.cloud_success
        /\ runs[r].sd.ret

\* C10: search_docker searches docker first when it is available, falls
\* back to the cloud replica when docker failed or was never available, and
\* raises only when the replica search failed as well.
C10_SearchFallsBack ==
    search.model_type = "qwen3" =>
        /\ docker_available["rag"] => search.tried[1] = "search_docker"
        /\ ~docker_available["rag"] => search.tried = <<"search_replica">>
        /\ search.dockerFailed => search.tried = <<"search_docker", "search_replica">>
        /\ (docker_available["rag"] /\ ~search.dockerFailed) =>
               /\ search.tried = <<"search_docker">>
               /\ search.status = "ok"
               /\ search.source = "docker"
               /\ search.hits \subseteq dockerColl
        /\ (search.status = "error") = search.replicaFailed
        /\ search.replicaFailed => (search.dockerFailed \/ ~docker_available["rag"])
        /\ ((search.dockerFailed \/ ~docker_available["rag"]) /\ ~search.replicaFailed) =>
               /\ search.status = "ok"
               /\ search.source = "replica"
               /\ search.hits \subseteq replicaColl

C10_Witness ==
    /\ search.status = "ok"
    /\ search.source = "replica"
    /\ search.dockerFailed
    /\ search.hits # {}
    /\ dockerColl # {}

\* C11: the constructor of QdrantStorage ends in an error exactly when the
\* cloud client or one of the two cloud collections could not be ensured; a
\* docker backend that could not be ensured leaves the store ready with
\* docker_available false; docker_available keeps the value the constructor
\* gave it; and while it is false no upsert (of the ingestion service's
\* store) and no search (of the query service's store) goes to the docker
\* client.
UpsertsDocker == \E r \in Runs : InLog(r, {"upsert_docker"})
SearchesDocker == \E i \in DOMAIN search.tried : search.tried[i] = "search_docker"

C11_StoreInitialization ==
    /\ \A s \in Services :
          /\ storage[s].status = "error" <=> storage[s].raised # None
          /\ storage[s].raised # None =>
                \E i \in DOMAIN CloudSteps : storage[s].raised = CloudSteps[i]
          /\ storage[s].status # "ready" =>
                /\ started = 0 /\ search = NoSearch
                /\ cloudColl = {} /\ replicaColl = {} /\ dockerColl = {}
          /\ storage[s].status = "ready" =>
                docker_available[s] = storage[s].docker_ensured
    /\ (\A s \in Services : storage[s].status = "ready") =>
          /\ ~docker_available["ingestion"] => (~UpsertsDocker /\ dockerColl = {})
          /\ ~docker_available["rag"] => ~SearchesDocker

\* The docker backend could not be ensured for either store, both are ready
\* all the same, and a document was stored and a search answered without the
\* docker client.
C11_Witness ==
    /\ \A s \in Services :
          /\ storage[s].status = "ready"
          /\ ~storage[s].docker_ensured
          /\ ~docker_available[s]
    /\ replicaColl # {}
    /\ search.status = "ok"
    /\ search.source = "replica"

\* ------------------------------------------------------------ attribution
\* The query has its attributions.
Attributed == query.pc = "save"
Results == query.search_results

\* C12: the context numbers the results 1, 2, ... in search order; the
\* attributions are, in the order the trailer declared them, the results
\* with the declared numbers: each attribution carries the text of the
\* context block whose number was declared; and declaring 2, 4 over four
\* results gives exactly the second and the fourth result.
C12_IndexStability ==
    Attributed =>
      /\ \A i \in DOMAIN query.context :
           /\ query.context[i].Document = i
           /\ query.context[i].text = Results[i].text
      /\ DOMAIN query.context = DOMAIN Results
      /\ query.used_sources # <<>> =>
           \E f \in [DOMAIN query.sources -> DOMAIN query.used_sources] :
              /\ \A j, k \in DOMAIN f : j < k => f[j] < f[k]
              /\ \A j \in DOMAIN f :
                   /\ query.used_sources[f[j]] \in DOMAIN query.context
                   /\ query.sources[j].text
                        = query.context[query.used_sources[f[j]]].text
                   /\ query.sources[j] = Source(Results[query.used_sources[f[j]]])
      /\ (query.used_sources = <<2, 4>> /\ Len(Results) = 4) =>
           query.sources = <<Source(Results[2]), Source(Results[4])>>

\* Four results whose chunk numbers fall with the rank, and a trailer that
\* declares 2, 4: the attributions are chunks 3 and 1.
C12_Witness ==
    /\ Attributed
    /\ Len(Results) = 4
    /\ Results[1].chunkno = 4
    /\ DeclaredNumbers(query.result) = <<2, 4>>
    /\ query.sources = <<Source(Hit(3)), Source(Hit(1))>>

\* The declared numbers that refer to a retrieved result.
RefersToResult(n) == n \in DOMAIN Results
ValidDeclared == SelectSeq(DeclaredNumbers(query.result), RefersToResult)
FirstResults(k) == [i \in 1..Min(k, Len(Results)) |-> Source(Results[i])]

\* C13: when the trailer declares no number that refers to a retrieved
\* result (no trailer, a malformed one, "SOURCES: 0", or only numbers
\* without a result), the attributions are the first min(3, number of
\* results) results in similarity order, so they are not empty when there
\* is a result.
C13_FallbackWhenNoValidIndex ==
    (Attributed /\ ValidDeclared = <<>>) =>
      /\ query.sources = FirstResults(3)
      /\ Results # <<>> => query.sources # <<>>

\* C14: the declared numbers without a result are dropped first, then the
\* first three of the remaining ones are attributed: never more than three
\* attributions, each of them a retrieved result.
C14_DiscardBeforeCap ==
    Attributed =>
      /\ Len(query.sources) <= 3
      /\ \A j \in DOMAIN query.sources :
           \E i \in DOMAIN Results : query.sources[j] = Source(Results[i])
      /\ ValidDeclared # <<>> =>
           query.sources = [j \in 1..Min(3, Len(ValidDeclared)) |->
                               Source(Results[ValidDeclared[j]])]

\* The text ends with a sources line: a sentinel followed, up to the end, by
\* one or more digits, commas and white space.
EndsWithTrailer(text) ==
    \E p \in 1..(Len(text) - 1) :
        /\ text[p] = SENTINEL
        /\ \A k \in (p + 1)..Len(text) : text[k] \in Class
LastSentinel(text) ==
    CHOOSE p \in DOMAIN text :
        /\ text[p] = SENTINEL
        /\ \A k \in (p + 1)..Len(text) : text[k] # SENTINEL
Sentinels(text) == Cardinality({p \in DOMAIN text : text[p] = SENTINEL})

\* The sources line is removed from `text` only when it ends the text; a
\* sentinel in the middle stays; what stands before the removed line is
\* `response`, trimmed of white space at both ends.
StrippedAtEndOnly(text, response) ==
    IF EndsWithTrailer(text)
    THEN /\ response = Strip(SubSeq(text, 1, LastSentinel(text) - 1))
         /\ Sentinels(response) = Sentinels(text) - 1
    ELSE /\ response = Strip(text)
         /\ Sentinels(response) = Sentinels(text)

\* C15 as stated: the sources line is removed from the response only when it
\* ends the model's text (white space and newlines may follow it); a
\* sentinel in the middle of the text stays; what stands before the removed
\* line is returned as it is, trimmed of white space at both ends.
C15_TrailerStrippedAtEndOnly ==
    query.pc \in {"sources", "save"} =>
        StrippedAtEndOnly(query.result, query.response)

\* The first place of a marker in a text.
FirstOf(text, marker) ==
    CHOOSE i \in DOMAIN text :
        text[i] = marker /\ \A k \in 1..(i - 1) : text[k] # marker
Holds(text, marker) == \E i \in DOMAIN text : text[i] = marker

\* The answer of a model's text.  For a "gemini" query it is the text.  For
\* a "qwen3" query whose text holds both "<think>" and "</think>" it is what
\* stands before the first "<think>" followed by what stands after the
\* first "</think>", trimmed of white space at both ends; otherwise the text.
AnswerOf(model_type, text) ==
    IF model_type = "qwen3" /\ Holds(text, THINK_OPEN) /\ Holds(text, THINK_CLOSE)
    THEN Strip(SubSeq(text, 1, FirstOf(text, THINK_OPEN) - 1)
               \o SubSeq(text, FirstOf(text, THINK_CLOSE) + 1, Len(text)))
    ELSE text

\* C15, amended: the sources line is removed only when it ends the answer,
\* which for a "qwen3" query is the model's text without its reasoning
\* block; a sentinel in the middle of the answer stays, and what stands
\* before the removed line is returned trimmed of white space at both ends.
C15_TrailerStrippedFromAnswer ==
    query.pc \in {"sources", "save"} =>
        StrippedAtEndOnly(AnswerOf(query.model_type, query.result), query.response)

\* A "qwen3" text that opens with a reasoning block, quotes a sources line
\* in its middle and ends with its own, a newline after it: the response
\* keeps the quoted line and loses the block and the last line.
C15_Witness ==
    /\ query.pc = "sources"
    /\ query.model_type = "qwen3"
    /\ Len(query.result) > 0
    /\ query.result[1] = THINK_OPEN
    /\ Sentinels(query.result) = 2
    /\ query.result[Len(query.result)] = "\n"
    /\ ~StrippedAtEndOnly(query.result, query.response)
    /\ query.thinking = <<"a">>
    /\ query.response = <<"a", "\n", SENTINEL, " ", "1", "\n", "a">>

\* -------------------------------------------------------------- embedding
RECURSIVE Concat(_)
Concat(seqs) == IF seqs = <<>> THEN <<>> ELSE Head(seqs) \o Concat(Tail(seqs))
BatchTexts == [k \in DOMAIN gemini.batches |-> gemini.batches[k].texts]
BatchSizes == [k \in DOMAIN gemini.batches |-> Len(gemini.batches[k].texts)]

\* C16: embed_documents sends the n texts as ceil(n / 49) batches that
\* follow one another in input order, none of more than 49 texts and all
\* but the last of exactly 49 (150 texts: 49, 49, 49, 3), and returns one
\* vector per text in input order.
C16_Batching ==
    LET n == Len(gemini.texts)
        sent == Concat(BatchTexts)
    IN  /\ \A k \in DOMAIN BatchSizes :
             /\ 1 <= BatchSizes[k] /\ BatchSizes[k] <= 49
             /\ k < Len(BatchSizes) => BatchSizes[k] = 49
        /\ Len(sent) <= n
        /\ sent = SubSeq(gemini.texts, 1, Len(sent))
        /\ gemini.pc \in {"batch", "sleep"} => Len(sent) < n
        /\ gemini.pc = "returned" =>
             /\ sent = gemini.texts
             /\ Len(BatchSizes) * 49 >= n
             /\ (Len(BatchSizes) - 1) * 49 < n
             /\ Len(gemini.all_embeddings) = n
             /\ \A k \in 1..n :
                  gemini.all_embeddings[k] = Embedding(gemini.texts[k])
             /\ n = 150 => BatchSizes = <<49, 49, 49, 3>>

\* 150 texts were embedded in four batches, the last one of 3 texts.
C16_Witness ==
    /\ gemini.pc = "returned"
    /\ Len(gemini.texts) = 150
    /\ Len(gemini.batches) = 4
    /\ Len(gemini.batches[4].texts) = 3
    /\ Len(gemini.all_embeddings) = 150

\* The requests (texts) a key submitted within the last minute.
RECURSIVE Submitted(_, _)
Submitted(requests, key) ==
    IF requests = <<>> THEN 0
    ELSE (IF Head(requests).key = key THEN Head(requests).n ELSE 0)
         + Submitted(Tail(requests), key)

\* C17: whatever embed_documents calls follow one another on the provider,
\* no key submits more than 49 requests (texts) within any 60 seconds.
C17_RateLimitBudget ==
    \A key \in {1, 2} : Submitted(window, key) <= 49

\* The requests provider s makes in a step, and whether one goes to LM Studio.
NewContacts(s) ==
    IF Len(local'[s].log) > Len(local[s].log)
    THEN SubSeq(local'[s].log, Len(local[s].log) + 1, Len(local'[s].log))
    ELSE <<>>
ContactsLocalEndpoint(s) ==
    \E k \in DOMAIN NewContacts(s) : NewContacts(s)[k].to = "lmstudio"

\* C18 as stated: once one provider of the process has found the local
\* endpoint unreachable, no flag returns to false and no embed call of the
\* process contacts the local endpoint any more.
C18_PermanentFallbackInProcess ==
    [][(\E t \in Services : local[t].use_fallback) =>
          \A s \in Services :
             /\ local[s].use_fallback => local'[s].use_fallback
             /\ ~ContactsLocalEndpoint(s)]_vars

\* C19: a failure of the local endpoint sets the flag and is followed by
\* one request, and only one, to the fallback for the same text; the call
\* raises only when a fallback request failed; and a call that returns
\* gives one vector per text, in the order of the texts.
C19_RetryOnceOnFallback ==
    \A s \in Services :
       LET me == local[s]
           log == me.log
       IN  /\ \A k \in DOMAIN log :
                (log[k].to = "lmstudio" /\ ~log[k].ok) =>
                   /\ me.use_fallback
                   /\ k < Len(log)
                   /\ log[k + 1].to = "hf"
                   /\ log[k + 1].text = log[k].text
                   /\ Cardinality({j \in DOMAIN log :
                         log[j].to = "hf" /\ log[j].text = log[k].text}) = 1
           /\ me.pc = "raised" <=>
                (log # <<>> /\ log[Len(log)].to = "hf" /\ ~log[Len(log)].ok)
           /\ \A k \in DOMAIN log :
                (log[k].to = "hf" /\ ~log[k].ok) => k = Len(log)
           /\ me.pc = "returned" =>
                /\ Len(me.embeddings) = Len(me.texts)
                /\ \A k \in DOMAIN me.texts :
                     me.embeddings[k] = Embedding(me.texts[k])

\* LM Studio failed on the first of two texts, HuggingFace embedded both, and
\* embed_documents returned two vectors.
C19_Witness ==
    LET me == local["ingestion"]
    IN  /\ me.pc = "returned"
        /\ Len(me.texts) = 2
        /\ Len(me.log) = 3
        /\ me.log[1] = Contact("lmstudio", me.texts[1], FALSE)
        /\ me.log[2] = Contact("hf", me.texts[1], TRUE)
        /\ me.log[3] = Contact("hf", me.texts[2], TRUE)
        /\ Len(me.embeddings) = 2

\* C20: embed_documents with an empty list is rejected with an error and
\* without a request, by the Gemini provider and by the local provider.
C20_EmptyBatchRejected ==
    /\ (gemini.pc \notin {"new", "init_raised", "idle"} /\ gemini.texts = <<>>) =>
          (gemini.pc = "raised" /\ gemini.batches = <<>>)
    /\ \A s \in Services :
          (local[s].pc # "idle" /\ local[s].method = "embed_documents"
                                /\ local[s].texts = <<>>) =>
             (local[s].pc = "raised" /\ local[s].log = <<>>)

\* The stored points of a collection that carry ordinal k of a fingerprint.
OrdinalPoints(coll, md5, k) == {p \in PointsOf(coll, md5) : p.chunkno = k}

\* C21: in every collection, the points of a fingerprint carry the ordinals
\* 1..N, each of them exactly once, where N is the number of chunks the
\* document was split into by the call that wrote the point.
C21_OrdinalDensity ==
    \A coll \in {cloudColl, replicaColl, dockerColl} :
       \A p \in coll :
          LET N == last.chunks[p.id[1]]
          IN  /\ {q.chunkno : q \in PointsOf(coll, p.md5)} = 1..N
              /\ \A k \in 1..N : Cardinality(OrdinalPoints(coll, p.md5, k)) = 1

\* The collections of the store, before and after a step.
Collections == <<cloudColl, replicaColl, dockerColl>>
CollectionsAfter == <<cloudColl', replicaColl', dockerColl'>>

\* C22: no step modifies or removes a stored point; a step that writes adds
\* points whose identifiers the collection did not hold.
C22_PointsImmutable ==
    [][\A c \in DOMAIN Collections :
          /\ Collections[c] \subseteq CollectionsAfter[c]
          /\ \A p \in CollectionsAfter[c] \ Collections[c] :
                \A q \in Collections[c] : q.id # p.id]_vars

\* The bytes of a document were written to the cloud collection by two
\* ingest_document calls; the points of the first are still there.
C22_Witness ==
    \E p \in cloudColl, q \in cloudColl :
        /\ p.md5 = q.md5
        /\ p.id[1] = 1
        /\ q.id[1] = 2
        /\ Cardinality(cloudColl) = 2 * NChunks(p.md5[2])

\* C23: every point of the cloud collection carries a Gemini vector, every
\* point of the docker collection and of its cloud replica a vector of the
\* local provider, and the hits of a search come from a collection of the
\* space of the query vector.
C23_SpacesNeverMix ==
    /\ \A p \in cloudColl : p.space = "gemini"
    /\ \A p \in replicaColl \cup dockerColl : p.space = "local"
    /\ search.status = "ok" =>
          /\ search.source = "cloud" => search.hits \subseteq cloudColl
          /\ search.source = "replica" => search.hits \subseteq replicaColl
          /\ search.source = "docker" => search.hits \subseteq dockerColl
          /\ \A h \in search.hits : h.space = search.vector

\* A document is stored in all three collections and a "qwen3" query got
\* its hits from the docker collection.
C23_Witness ==
    /\ cloudColl # {} /\ replicaColl # {} /\ dockerColl # {}
    /\ search.status = "ok"
    /\ search.model_type = "qwen3"
    /\ search.source = "docker"
    /\ search.hits # {}

\* The blocks of ingest_document and the kinds of message it returns.
HandlerBlocks ==
    {"idle", "md5", "md5_read", "check", "check_docker", "duplicate", "load",
     "cloud", "cloud_check", "cloud_upsert", "docker", "docker_check", "docker_upsert",
     "replica_upsert", "finish", "done"}
Rejected == Duplicate \cup {"empty", "loading_error", "failed", "error"}

\* C25: whatever fails, a run of ingest_document stays inside the handler
\* and ends with a (success, message) pair: a committed message with
\* success, or a rejection or failure message without.
C25_NoExceptionEscapes ==
    \A r \in Runs :
       /\ runs[r].pc \in HandlerBlocks
       /\ Done(r) =>
             /\ runs[r].result.kind \in Committed \cup Rejected
             /\ runs[r].result.success = (runs[r].result.kind \in Committed)

\* Two runs ended with a result although something failed: in the first
\* neither tier stored the document, in the second the read of the file for
\* its fingerprint raised.
C25_Witness ==
    /\ last.kind = "failed"
    /\ \E r \in Runs :
          /\ Done(r)
          /\ runs[r].result.kind = "error"
          /\ runs[r].log = <<"md5">>

\* A text with no boundary to break at: one run of non-blank characters.
SingleRun(text) == text # <<>> /\ \A i \in DOMAIN text : text[i] \notin Whitespace

\* C30: every chunk the chunker produces is at most chunk_size characters
\* long, and a single run longer than chunk_size is cut into more than one
\* chunk.
C30_ChunksWithinSize ==
    chunker.pc = "done" =>
        /\ \A i \in DOMAIN chunker.chunks :
              Len(chunker.chunks[i]) <= chunker.chunk_size
        /\ (SingleRun(chunker.text) /\ Len(chunker.text) > chunker.chunk_size
              => Len(chunker.chunks) > 1)

\* A single run longer than chunk_size was chunked into several chunks.
C30_Witness ==
    /\ chunker.pc = "done"
    /\ SingleRun(chunker.text)
    /\ Len(chunker.text) > chunker.chunk_size
    /\ Len(chunker.chunks) > 1

\* The fingerprint of the i-th file of the batch.
BatchMd5(i) == calculate_md5(bulk.files[i].doc)

\* C24 as first stated: each file's outcome is independent of the other
\* files of the batch, so a file is rejected as a duplicate only when its
\* fingerprint was stored before the batch began.
C24_OutcomesIndependent ==
    \A i \in DOMAIN bulk.results :
        bulk.results[i].message.kind \in Duplicate => BatchMd5(i) \in bulk.stored

\* C24: bulk ingestion calls ingest_document once on every file of the folder
\* itself with an accepted suffix, a failure does not end the batch, the
\* result list has one (name, success, message) entry per file in the order
\* of processing, and a file is rejected as a duplicate only when its
\* fingerprint was stored before the batch or an earlier file of the batch
\* with the same bytes was committed.
C24_BulkOutcomes ==
    bulk.pc # "idle" =>
        /\ {bulk.files[i] : i \in DOMAIN bulk.files}
              = {f \in bulk.listed : /\ f.folder = generate_embeddings_folder
                                     /\ f.ext \in {".txt", ".pdf", ".docx", ".doc",
                                                   ".md", ".csv"}}
        /\ \A i, j \in DOMAIN bulk.files : bulk.files[i] = bulk.files[j] => i = j
        /\ started = Len(bulk.results) + (IF bulk.pc = "call" THEN 1 ELSE 0)
        /\ Len(bulk.results) <= Len(bulk.files)
        /\ bulk.pc = "returned" => Len(bulk.results) = Len(bulk.files)
        /\ \A i \in DOMAIN bulk.results :
              /\ bulk.results[i].name = Name(bulk.files[i])
              /\ bulk.results[i].success = bulk.results[i].message.success
              /\ bulk.results[i].message.kind # None
              /\ bulk.results[i].message.kind \in Duplicate =>
                    \/ BatchMd5(i) \in bulk.stored
                    \/ \E j \in 1..(i - 1) :
                          /\ BatchMd5(j) = BatchMd5(i)
                          /\ bulk.results[j].message.kind \in Committed

\* A batch returned in which a file failed and a later file was committed.
C24_Witness ==
    /\ bulk.pc = "returned"
    /\ \E i, j \in DOMAIN bulk.results :
          /\ i < j
          /\ ~bulk.results[i].success
          /\ bulk.results[j].message.kind \in Committed

\* C29: ingest_website returns success whenever the page loads into at least
\* one chunk and at least one of the two attempts stores its points.
C29_WebsiteContract ==
    (web.pc = "returned" /\ web.chunks >= 1 /\ (web.geminiOK \/ web.localOK))
        => web.result.success

\* The history a store holds under a chat id, read without a fault.
Stored(c, chat_id) ==
    IF c.mongo_available /\ Find(c.mongo, chat_id) # {}
    THEN Messages(Find(c.mongo, chat_id))
    ELSE Messages(Find(c.json, chat_id))

\* C26: query() uses the caller's chat id or a fresh one; when it returns,
\* the history stored under that id is the history stored before followed by
\* one user turn and one assistant turn (response, attributions, thinking);
\* when it raises, the stores are as they were.
C26_TurnPersisted ==
    /\ turn.pc # "idle" =>
          /\ turn.supplied # NoChat => turn.chat_id = turn.supplied
          /\ turn.supplied = NoChat =>
                /\ Find(turn.before.mongo, turn.chat_id) = {}
                /\ Find(turn.before.json, turn.chat_id) = {}
    /\ turn.pc = "returned" =>
          Stored(chat, turn.chat_id)
              = Stored(turn.before, turn.chat_id)
                  \o <<UserMessage(turn.user_query),
                       AssistantMessage(turn.response, turn.thinking, turn.sources)>>
    /\ turn.pc = "raised" =>
          /\ chat.mongo = turn.before.mongo
          /\ chat.json = turn.before.json

\* An event that ends a stream: 'end', 'error', or an object with the key
\* "error".
Terminal(e) == e.type \in {"end", "error"} \/ e.error # None
Terminals(s) == {i \in DOMAIN stream[s].events : Terminal(stream[s].events[i])}

\* C27: a query_stream run emits at most one terminal event and nothing
\* after it, a finished run has emitted exactly one, and an 'end' event
\* comes only after the turn was saved and carries the chat id.
C27_OneTerminalEvent ==
    \A s \in Streams :
       /\ Cardinality(Terminals(s)) <= 1
       /\ \A i \in Terminals(s) : i = Len(stream[s].events)
       /\ stream[s].pc = "done" => Cardinality(Terminals(s)) = 1
       /\ \A i \in DOMAIN stream[s].events :
             stream[s].events[i].type = "end" =>
                 /\ stream[s].saved
                 /\ stream[s].events[i].chat_id = stream[s].chat_id

\* A stream that began with the 'start' event and ended with an error event
\* while another one was open.
C27_Witness ==
    \E s \in Streams, t \in Streams :
       /\ stream[s].pc = "done"
       /\ Len(stream[s].events) = 2
       /\ stream[s].events[1].type = "start"
       /\ stream[s].events[2].type = "error"
       /\ stream[t].pc \notin {"idle", "done"}

\* C28: a stream that began ends with the final event, which carries the
\* attributions the trailer declared.
C28_FinalEventAttributes ==
    \A s \in Streams :
       (stream[s].pc = "done" /\ stream[s].events # <<>>
                              /\ stream[s].events[1].type = "start")
           => stream[s].events[Len(stream[s].events)].type = "end"

\* A run past its pre-check that follows, with nothing in between, a run on
\* the same bytes that committed a fingerprint absent before to one tier
\* only.
Resubmitted(r) ==
    /\ runs[r].pc \notin {"idle", "md5", "md5_read", "check", "check_docker", "duplicate"}
    /\ last.kind \in {"cloud_only", "docker_only"}
    /\ last.fresh
    /\ runs[r].md5 = last.md5

\* C38: an ingest of bytes that an earlier ingest committed to exactly one
\* tier is rejected as a duplicate before anything is embedded or written.
C38_PartialNeverRepaired ==
    \A r \in Runs :
        Resubmitted(r) =>
            /\ runs[r].result.kind \in Duplicate
            /\ ~InLog(r, EmbedEvents \cup WriteEvents)

\* The event at position i of a run's log follows the event `before`.
Follows(r, i, before) == \E j \in 1..(i - 1) : runs[r].log[j] = before

\* The points that the call-th call of ingest_document wrote to a collection
\* with the vectors of a space (1: Gemini, 2: local).
WriteOf(coll, call, space) ==
    {q \in coll : q.id[1] = call /\ q.id[2] = space}

\* The write is absent or whole: its points carry one fingerprint and the
\* ordinals 1..N, each once, N the number of chunks the call had loaded.
WholeWrite(write, N) ==
    \/ write = {}
    \/ /\ Cardinality(write) = N
       /\ {q.chunkno : q \in write} = 1..N
       /\ \A q \in write : q.id[3] = q.chunkno
       /\ Cardinality({q.md5 : q \in write}) = 1

\* C34: in each tier attempt the chunks are embedded before a write is
\* issued, an attempt whose embedding failed writes nothing, and every
\* fingerprint in a collection has all the points of its document.
C34_EmbedThenWrite ==
    /\ \A r \in Runs :
          /\ \A i \in DOMAIN runs[r].log :
                /\ runs[r].log[i] = "upsert_cloud" =>
                      /\ Follows(r, i, "embed_gemini")
                      /\ runs[r].cloud_embedded = runs[r].n
                /\ runs[r].log[i] \in {"upsert_docker", "upsert_replica"} =>
                      /\ Follows(r, i, "embed_local")
                      /\ runs[r].docker_embedded = runs[r].n
          /\ runs[r].cloud_error # NoErr =>
                /\ ~InLog(r, {"upsert_cloud"})
                /\ \A p \in cloudColl : p.id[1] # runs[r].call
          /\ runs[r].docker_error # NoErr =>
                /\ ~InLog(r, {"upsert_docker", "upsert_replica"})
                /\ \A p \in dockerColl \cup replicaColl : p.id[1] # runs[r].call
    /\ \A call \in 1..MaxIngests, space \in {1, 2} :
          /\ WholeWrite(WriteOf(cloudColl, call, space), last.chunks[call])
          /\ WholeWrite(WriteOf(dockerColl, call, space), last.chunks[call])
          /\ WholeWrite(WriteOf(replicaColl, call, space), last.chunks[call])

\* The Gemini embedding of the long document failed on its second
\* sub-batch, after the first had been embedded: nothing of the document is
\* in the cloud collection, and the docker attempt, whose embedding was
\* complete, wrote all of it.
C34_Witness ==
    \E r \in Runs :
        /\ runs[r].cloud_error # NoErr
        /\ runs[r].cloud_embedded = BATCH_SIZE
        /\ runs[r].n > BATCH_SIZE
        /\ InLog(r, {"upsert_docker"})
        /\ PointsOf(cloudColl, runs[r].md5) = {}
        /\ Cardinality(PointsOf(dockerColl, runs[r].md5)) = runs[r].n

\* C36: within one embed_documents call two sub-batches sent with the same
\* key are at least one cooldown apart: with one key a cooldown follows every
\* sub-batch but the last, with two keys the sub-batches alternate (odd to
\* the first, even to the second) and a cooldown follows every even sub-batch
\* but the last; nothing is waited after the last sub-batch.
C36_CooldownPerKey ==
    LET sent == gemini.batches
    IN  /\ \A j, k \in DOMAIN sent :
              (j < k /\ sent[j].key = sent[k].key)
                  => sent[k].at - sent[j].at >= CooldownSeconds
        /\ \A k \in DOMAIN sent :
              /\ sent[k].key = IF gemini.has_second_key /\ k % 2 = 0 THEN 2 ELSE 1
              /\ sent[k].at = IF gemini.has_second_key
                              THEN CooldownSeconds * ((k - 1) \div 2)
                              ELSE CooldownSeconds * (k - 1)
        /\ gemini.pc \in {"returned", "raised"} =>
              (sent # <<>> => gemini.waited = sent[Len(sent)].at)

\* A call with two keys returned after four sub-batches and one cooldown.
C36_Witness ==
    /\ gemini.pc = "returned"
    /\ gemini.has_second_key
    /\ Len(gemini.batches) = 4
    /\ gemini.waited = CooldownSeconds

\* The numbers of the sources line that ends the text (the line
\* _remove_sources_line removes), none when the text does not end with one.
TrailerNumbers(text) ==
    IF EndsWithTrailer(text)
    THEN SelectSeq(FindAllNumbers(SubSeq(text, LastSentinel(text) + 1, Len(text))),
                   ValidIndex)
    ELSE <<>>

\* C39: the indices used for attribution are those of the sources line at
\* the end of the text, the one that is removed from the response; a
\* sentinel earlier in the answer does not determine them.
C39_IndicesFromStrippedTrailer ==
    query.pc \in {"sources", "save"} =>
        query.used_sources = TrailerNumbers(query.result)

\* C40: a load_chat_history that follows a save_chat_history of the same
\* chat id that returned True returns the messages that were saved, whether
\* MongoDB is available or not and whether its calls fail or not (the JSON
\* file is readable).
C40_RoundTrip ==
    (turn.pc = "answer" /\ chat.saved.chat_id = turn.chat_id /\ ~turn.json_failed)
        => turn.chat_history = chat.saved.messages

\* C37: the counter counts every embed_query call once (it equals the number
\* of calls that have stored their increment, and no two calls in progress
\* raised it to the same value), and a call waits the cooldown of 10 seconds
\* before its request exactly when it raised the counter to a multiple of 50.
C37_EveryFiftiethWaits ==
    /\ (\A t \in Threads : embedq.callers[t].pc # "store")
          => embedq.api_call_count = embedq.begun
    /\ \A t \in Threads :
          LET c == embedq.callers[t]
          IN  /\ c.pc \in {"send", "returned", "raised"} =>
                    c.waited = IF c.n % 50 = 0 THEN 10 ELSE 0
              /\ c.pc = "sleep" => (c.n % 50 = 0 /\ c.waited = 0)
    /\ \A t, u \in Threads :
          (t # u /\ embedq.callers[t].pc \notin {"idle", "store"}
                 /\ embedq.callers[u].pc \notin {"idle", "store"})
              => embedq.callers[t].n # embedq.callers[u].n

\* ----------------------------------------------------------- preprocessing
\* The lines of a text, without their newlines.
RECURSIVE LinesOf(_)
LinesOf(s) ==
    LET k == Run(s, RawChars \ {"\n"})
    IN  IF k = Len(s) THEN <<s>>
        ELSE <<SubSeq(s, 1, k)>> \o LinesOf(SubSeq(s, k + 2, Len(s)))

\* The whole line is what the pattern matches.
WholeLine(pattern, line) == MatchEnd(pattern, line, 1) = Len(line) + 1

\* A line of digits alone, a "Page N" line or a "- N -" line, white space
\* around them allowed.
IsPageNumberLine(line) ==
    \/ WholeLine(<<Star(Whitespace), Plus(Digits), Star(Whitespace)>>, line)
    \/ WholeLine(<<Star(Whitespace), One({"Page"}), Plus(Whitespace), Plus(Digits),
                   Star(Whitespace)>>, line)
    \/ WholeLine(<<Star(Whitespace), One({"-"}), Star(Whitespace), Plus(Digits),
                   Star(Whitespace), One({"-"}), Star(Whitespace)>>, line)

\* C31: no line of the output of preprocess_text is a page-number line,
\* wherever such lines stood in the input.
C31_NoPageNumberLine ==
    cleaner.pc = "done" =>
        \A i \in DOMAIN LinesOf(cleaner.out) : ~IsPageNumberLine(LinesOf(cleaner.out)[i])

\* Three in a row.
Triple(s, c) == \E i \in 1..(Len(s) - 2) : s[i] = c /\ s[i + 1] = c /\ s[i + 2] = c
\* Two in a row.
Double(s, c) == \E i \in 1..(Len(s) - 1) : s[i] = c /\ s[i + 1] = c

\* C32: the output of preprocess_text has no run of three newlines, no run of
\* two spaces and no white space at either end, and it is the value of the
\* function at the input.
C32_Normalised ==
    cleaner.pc = "done" =>
        /\ ~Triple(cleaner.out, "\n")
        /\ ~Double(cleaner.out, " ")
        /\ cleaner.out # <<>> =>
              /\ cleaner.out[1] \notin Whitespace
              /\ cleaner.out[Len(cleaner.out)] \notin Whitespace
        /\ cleaner.out = preprocess_text(cleaner.text)

\* A text with a run of three newlines between two lines has been cleaned to
\* the two lines a blank line apart, and a text with two spaces at its end
\* and two between its words to the words one space apart.
C32_Witness ==
    /\ cleaner.pc = "done"
    /\ \/ /\ cleaner.text = <<"a", "\n", "\n", "\n", "a">>
          /\ cleaner.out = <<"a", "\n", "\n", "a">>
       \/ /\ cleaner.text = <<"a", " ", " ", "a", " ">>
          /\ cleaner.out = <<"a", " ", "a">>

\* ------------------------------------------------------------------ server
\* C35: a cooldown taken by one upload delays no other request: a request's
\* handler begins without a cooldown of an upload having passed since the
\* request was submitted, and a request submitted while an upload is waiting
\* in a cooldown can begin.
C35_CooldownDelaysOnlyItself ==
    /\ \A q \in Requests :
          server.requests[q].pc \in {"saving", "running", "cooldown", "done"} =>
              server.requests[q].delayed = 0
    /\ \A q, u \in Requests :
          (/\ server.requests[u].pc = "cooldown"
           /\ server.requests[u].kind = "upload"
           /\ server.requests[q].pc = "pending")
              => ENABLED Dispatch(q)

\* -------------------------------------------------------------------- race
\* The points a call has written to the cloud collection.
WrittenBy(r) == {p \in cloudColl : p.id[1] = runs[r].call /\ p.space = "gemini"}

\* C33: nothing holds back a call of ingest_document while another is under
\* way, and the write of a call that found the fingerprint absent adds its
\* full set of points whatever the other call has written meanwhile.
C33_CheckThenWriteNotAtomic ==
    \A r \in Runs :
        /\ runs[r].pc # "idle" => ENABLED RaceStep(r)
        /\ runs[r].cloud_success =>
              /\ Cardinality(WrittenBy(r)) = runs[r].n
              /\ \A p \in WrittenBy(r) : p.md5 = runs[r].md5

\* Two calls on the same bytes, both begun while no collection held the
\* fingerprint, have both written: the cloud collection holds two full sets
\* of points for the fingerprint.
C33_Witness ==
    \E r, q \in Runs :
        /\ r # q
        /\ runs[r].md5 = runs[q].md5
        /\ runs[r].fresh /\ runs[q].fresh
        /\ runs[r].cloud_success /\ runs[q].cloud_success
        /\ runs[r].n >= 1
        /\ Cardinality(PointsOf(cloudColl, runs[r].md5)) = 2 * runs[r].n

=============================================================================
